---- MODULE Spec2Model ----
(***************************************************************************)
(* Verification model of HBTK (hjabird/Quad1D):                            *)
(*   - HBTK::Plot3D::Plot3DParser  (src/src/Plot3DParser.cpp, 33-284)      *)
(*   - HBTK::Vtk::VtkWriter        (src/src/Plot3DParser.cpp, 325-716)     *)
(* The parser and the writer are independent objects; each has its own     *)
(* specification (SpecParser, SpecWriter) over the shared variable list.   *)
(***************************************************************************)
EXTENDS Integers, Naturals, Sequences, FiniteSets, TLC

(***************************************************************************)
(* Bounds of the model.                                                    *)
(***************************************************************************)
MaxBlocks == 2        \* largest block count offered by an input file
MaxExtent == 2        \* largest extent of a block in any direction
MaxConsumers == 2     \* most consumers registered with one parser
MaxCells == 2         \* most cells of a mesh given to vtk_unstructured_cells
MaxNodes == 2         \* most nodes of one of those cells
MaxTableCalls == 4    \* most calls made on one DoubleTable
MaxRefinements == 3   \* most frames one integration refines
MaxCalls == 5         \* most calls made on one VtkWriter, the
                      \* assignments to its encoding flags included

VARIABLES
    ndebug,                 \* TRUE: built with NDEBUG (assert() compiled out)
    \* ---- Plot3DParser: public configuration and consumer lists
    single_block,
    parse_as_binary,
    number_of_dimensions,
    m_mesh_2d_functions,
    m_mesh_3d_functions,
    \* ---- Plot3DParser: locals of the running parse
    pc,                     \* position of the parse
    number_of_blocks,
    extents,                \* extents[m][n], as in the code (1-based here)
    line_number,
    n,                      \* block loop counter (0-based, as in the code)
    mesh,                   \* the StructuredMeshBlock3D being filled
    fidx,                   \* position in the consumer list during fan-out
    thrown,                 \* what the parse threw ("none" while it has not)
    \* ---- the input stream
    in_pos,                 \* coordinate values consumed so far
    in_fail,                \* failbit of the std::ifstream
    record_open_flag,       \* a Fortran record is open (binary)
    input_malformed,        \* the part of the file read so far was malformed
    in_sections,            \* the sections of the file consumed, in order
    fortran_input,          \* record_open, integer reads and record_close
                            \* made through the FortranSequentialInputStream
    \* ---- what the consumers saw
    calls,                  \* sequence of consumer invocations
    \* ---- VtkWriter
    m_written_xml_header,
    m_file_type,
    ascii,
    appended,
    m_appended_data,        \* the buffers kept for the AppendedData element
    m_tag_stack,            \* open tags of m_xml_writer, innermost last
    out,                    \* what has been written to the output stream
    wcalls,                 \* the calls made on the writer, with outcome
    \* ---- DoubleTable
    m_data,                 \* the columns, each a sequence of values
    m_data_names,           \* the column headings
    m_fill_values,          \* the fill value of each column
    m_default_fill_value,
    tcalls,                 \* the calls made on the table, with outcome
    \* ---- adaptive integrators (Integrators.h)
    method,                 \* the integrator that is running
    ipc,                    \* position of the integrator
    lower_limit,
    upper_limit,
    stack,                  \* the work stack, top of the stack last
    stack_size,
    accepted,               \* the frames whose integral was added to result
    refinements             \* the frames refined so far

pvars == << single_block, parse_as_binary, number_of_dimensions,
            m_mesh_2d_functions, m_mesh_3d_functions, pc, number_of_blocks,
            extents, line_number, n, mesh, fidx, thrown, in_pos, in_fail,
            record_open_flag, input_malformed, in_sections,
            fortran_input, calls >>

wvars == << m_written_xml_header, m_file_type, ascii, appended,
            m_appended_data, m_tag_stack, out, wcalls >>

tvars == << m_data, m_data_names, m_fill_values, m_default_fill_value,
            tcalls >>

ivars == << method, ipc, lower_limit, upper_limit, stack, stack_size,
            accepted, refinements >>

vars == << ndebug, pvars, wvars, tvars, ivars >>

(***************************************************************************)
(* Input values.                                                           *)
(***************************************************************************)
ExtVals == 1..MaxExtent                 \* well-formed extents
CountVals == (0 - 1)..MaxBlocks         \* block-count values found in files

\* The p-th coordinate value of the file (0-based); every position holds a
\* different, non-zero number so that a misplaced value is visible.
TokenValue(p) == p + 1

\* Points at which the coordinate section of an ascii file may stop being
\* numeric, for a block that needs `need` values: need = no failure.
FailPoints(need) == {0, need \div 2, need - 1, need} \cap (0..need)

(***************************************************************************)
(* Plot3DParser()                                                          *)
(***************************************************************************)
NoMesh == [extent |-> << 0, 0, 0 >>, coord |-> << >>]

\* Values of `thrown`: nothing, an int (throw line_number; throw 1;
\* throw -1), or an exception object of a library class.
NoThrow == [kind |-> "none", value |-> 0]
ThrowInt(v) == [kind |-> "int", value |-> v]
ThrowException == [kind |-> "exception", value |-> 0]

Plot3DParser_ctor ==
    /\ single_block = FALSE
    /\ parse_as_binary = TRUE
    /\ number_of_dimensions = 0 - 1
    /\ m_mesh_2d_functions = << >>
    /\ m_mesh_3d_functions = << >>
    /\ pc = "idle"
    /\ number_of_blocks = 0
    /\ extents = << >>
    /\ line_number = 0
    /\ n = 0
    /\ mesh = NoMesh
    /\ fidx = 0
    /\ thrown = NoThrow
    /\ in_pos = 0
    /\ in_fail = FALSE
    /\ record_open_flag = FALSE
    /\ input_malformed = FALSE
    /\ in_sections = << >>
    /\ fortran_input = << >>
    /\ calls = << >>

\* VtkWriter()
VtkWriter_ctor ==
    /\ m_written_xml_header = FALSE
    /\ m_file_type = "None"
    /\ ascii = FALSE
    /\ appended = TRUE
    /\ m_appended_data = << >>
    /\ m_tag_stack = << >>
    /\ out = << >>
    /\ wcalls = << >>

\* The default fill value of a new table; every value put into a table is
\* a number of 0 or more.
NAN == 0 - 1

\* DoubleTable()
DoubleTable_ctor ==
    /\ m_data = << >>
    /\ m_data_names = << >>
    /\ m_fill_values = << >>
    /\ m_default_fill_value = NAN
    /\ tcalls = << >>

\* No integrator has been called.
integrators_idle ==
    /\ method = "none"
    /\ ipc = "idle"
    /\ lower_limit = 0
    /\ upper_limit = 0
    /\ stack = << >>
    /\ stack_size = 0
    /\ accepted = {}
    /\ refinements = 0

InitParser ==
    /\ ndebug \in BOOLEAN
    /\ Plot3DParser_ctor
    /\ VtkWriter_ctor
    /\ DoubleTable_ctor
    /\ integrators_idle

parse_locals == << number_of_blocks, extents, line_number, n, mesh, fidx,
                   thrown, in_pos, in_fail, record_open_flag,
                   input_malformed, in_sections, fortran_input, calls >>

\* The caller sets the public configuration fields before parsing.
set_options(sb, bin, dims) ==
    /\ pc = "idle"
    /\ single_block' = sb
    /\ parse_as_binary' = bin
    /\ number_of_dimensions' = dims
    /\ UNCHANGED << ndebug, wvars, tvars, ivars, m_mesh_2d_functions, m_mesh_3d_functions,
                    pc, parse_locals >>

\* A consumer is identified by the kind of block it takes and its
\* registration number k among the consumers of that kind.
consumers_registered == Len(m_mesh_2d_functions) + Len(m_mesh_3d_functions)

add_2D_block_function ==
    /\ pc = "idle"
    /\ consumers_registered < MaxConsumers
    /\ m_mesh_2d_functions' =
           Append(m_mesh_2d_functions,
                  [dim |-> 2, k |-> Len(m_mesh_2d_functions) + 1])
    /\ UNCHANGED << ndebug, wvars, tvars, ivars, single_block, parse_as_binary,
                    number_of_dimensions, m_mesh_3d_functions, pc,
                    parse_locals >>

add_3D_block_function ==
    /\ pc = "idle"
    /\ consumers_registered < MaxConsumers
    /\ m_mesh_3d_functions' =
           Append(m_mesh_3d_functions,
                  [dim |-> 3, k |-> Len(m_mesh_3d_functions) + 1])
    /\ UNCHANGED << ndebug, wvars, tvars, ivars, single_block, parse_as_binary,
                    number_of_dimensions, m_mesh_2d_functions, pc,
                    parse_locals >>


(***************************************************************************)
(* Blocks.  A StructuredMeshBlock3D is its extent and one coordinate       *)
(* triple per index (i, j, k), 0-based as in the code.                     *)
(***************************************************************************)
Indices3(i_ext, j_ext, k_ext) ==
    (0..(i_ext - 1)) \X (0..(j_ext - 1)) \X (0..(k_ext - 1))

\* HBTK::StructuredMeshBlock3D mesh; mesh.set_extent({i_ext, j_ext, k_ext})
set_extent(i_ext, j_ext, k_ext) ==
    [extent |-> << i_ext, j_ext, k_ext >>,
     coord  |-> [idx \in Indices3(i_ext, j_ext, k_ext) |-> << 0, 0, 0 >>]]

\* The order in which apply_function_to_input_array visits the indices:
\* k outermost, j in the middle, i innermost.  The v-th visit (1-based).
LoopIndex_j_inner(v, i_ext, j_ext) ==
    << ((v - 1) \div j_ext) % i_ext,
       (v - 1) % j_ext,
       (v - 1) \div (i_ext * j_ext) >>

LoopIndex(v, i_ext, j_ext) ==
    << (v - 1) % i_ext,
       ((v - 1) \div i_ext) % j_ext,
       (v - 1) \div (i_ext * j_ext) >>

\* The stream while a block is read: pos = coordinate values consumed,
\* fail = failbit, avail = numeric values left before the file stops being
\* numeric (ascii).  A pass issues `total` reads, one per index.
\*
\* read_bin of parse_ascii: double tmp_val = 0; input_stream >> tmp_val;
\* once a read has failed the failbit stays set and every later read fails
\* too, leaving 0 in tmp_val.  read_bin of parse_binary:
\* unpack_binary_to_struct(input_stream, double_buffer).
\* The number of reads of a pass that deliver a value from the file:
reads_delivered(binary, st, total) ==
    IF binary THEN total
    ELSE IF st.fail THEN 0
    ELSE IF st.avail < total THEN st.avail ELSE total

\* The value read_bin stores on its v-th execution within a pass.
read_bin_binary_shifted(binary, st, total, v) ==
    IF v <= reads_delivered(binary, st, total)
    THEN TokenValue(st.pos + v - (IF binary THEN 0 ELSE 1))
    ELSE 0

read_bin(binary, st, total, v) ==
    IF v <= reads_delivered(binary, st, total)
    THEN TokenValue(st.pos + v - 1)
    ELSE 0

\* apply_function_to_input_array(i_ext, j_ext, k_ext, read_bin(.., xyz_idx)):
\* the point visited v-th gets the v-th value read in component xyz_idx
\* (1-based here).
apply_function_to_input_array(i_ext, j_ext, k_ext, binary, xyz_idx, st) ==
    LET total == i_ext * j_ext * k_ext
        good  == reads_delivered(binary, st, total)
        visit(idx) == CHOOSE v \in 1..total : LoopIndex(v, i_ext, j_ext) = idx
    IN  [mesh  |-> [extent |-> st.mesh.extent,
                    coord  |-> [idx \in DOMAIN st.mesh.coord |->
                                  [st.mesh.coord[idx] EXCEPT ![xyz_idx] =
                                      read_bin(binary, st, total, visit(idx))]]],
         pos   |-> st.pos + good,
         fail  |-> IF binary THEN st.fail ELSE (st.fail \/ good < total),
         avail |-> IF binary THEN st.avail ELSE st.avail - good]

\* The three (two when dimensions = 2) passes over a block.
read_block(i_ext, j_ext, k_ext, dims, binary, st) ==
    LET x  == apply_function_to_input_array(i_ext, j_ext, k_ext, binary, 1, st)
        xy == apply_function_to_input_array(i_ext, j_ext, k_ext, binary, 2, x)
    IN  IF dims = 3
        THEN apply_function_to_input_array(i_ext, j_ext, k_ext, binary, 3, xy)
        ELSE xy

\* HBTK::StructuredMeshBlock2D mesh2d built from the 3D block.
project_2d_xz(m3) ==
    [extent |-> << m3.extent[1], m3.extent[2] >>,
     coord  |-> [ij \in (0..(m3.extent[1] - 1)) \X (0..(m3.extent[2] - 1)) |->
                    << m3.coord[<< ij[1], ij[2], 0 >>][1],
                       m3.coord[<< ij[1], ij[2], 0 >>][3] >>]]

project_2d(m3) ==
    [extent |-> << m3.extent[1], m3.extent[2] >>,
     coord  |-> [ij \in (0..(m3.extent[1] - 1)) \X (0..(m3.extent[2] - 1)) |->
                    << m3.coord[<< ij[1], ij[2], 0 >>][1],
                       m3.coord[<< ij[1], ij[2], 0 >>][2] >>]]

\* The consumer list of the active dimensionality and the block handed to it.
functions == IF number_of_dimensions = 3 THEN m_mesh_3d_functions
                                         ELSE m_mesh_2d_functions
dispatched_block == IF number_of_dimensions = 3 THEN mesh ELSE project_2d(mesh)


(***************************************************************************)
(* main_parser / parse_2d / parse_3d                                       *)
(***************************************************************************)
cfg_vars == << ndebug, wvars, tvars, ivars, single_block, parse_as_binary,
               number_of_dimensions, m_mesh_2d_functions,
               m_mesh_3d_functions >>

dimensions == number_of_dimensions     \* the argument parse_2d/3d pass on

main_parser ==
    /\ pc = "idle"
    /\ IF number_of_dimensions \in {2, 3}
       THEN /\ pc' = IF parse_as_binary THEN "binary_count" ELSE "ascii_count"
            /\ line_number' = 1
       ELSE \* assert(...) aborts; with NDEBUG neither branch is taken
            /\ pc' = IF ndebug THEN "done" ELSE "aborted"
            /\ UNCHANGED line_number
    /\ UNCHANGED << cfg_vars, fortran_input, number_of_blocks, extents, n, mesh, fidx,
                    thrown, in_pos, in_fail, record_open_flag,
                    input_malformed, in_sections, calls >>

\* A piece of text: a decimal integer or something non-numeric.
Num(v) == [numeric |-> TRUE, value |-> v]
Text == [numeric |-> FALSE, value |-> 0]

\* std::atoi of a text line: 0 when the line does not start with a number.
atoi(this_line) == IF this_line.numeric THEN this_line.value ELSE 0

\* std::stoi of a token; stoi_ok is FALSE when it throws
\* std::invalid_argument.
stoi_ok(tok) == tok.numeric
stoi(tok) == tok.value

\* The extents offered for the first block of a file: every direction the
\* same, or one direction longer than 1.  Each later block of the file has
\* the extents of the block before it, rotated by one direction, so that
\* the blocks of a file differ.
Shapes(dims) ==
    { s \in [1..dims -> ExtVals] :
        \/ \A m \in 1..dims : s[m] = s[1]
        \/ \E m \in 1..dims : \A m2 \in (1..dims) \ {m} : s[m2] = 1 }

rotate(s) == [m \in 1..Len(s) |-> s[(m % Len(s)) + 1]]

\* The extents table of a file of nb blocks whose first block has shape s.
RECURSIVE file_table(_, _)
file_table(s, nb) ==
    IF nb = 1 THEN << s >>
    ELSE << s >> \o file_table(rotate(s), nb - 1)

FileTables(dims, nb) == { file_table(s, nb) : s \in Shapes(dims) }

\* Lines offered for the extents of block b (0-based), the table read so
\* far being ext: well-formed lines of `dims` integer tokens, one with an
\* extra token, one that is a token short, one with a non-numeric token.
ExtentLines(dims, b, ext) ==
    LET good == IF b = 0 THEN Shapes(dims)
                ELSE { rotate([m \in 1..dims |-> ext[m][b]]) }
    IN  { [m \in 1..dims |-> Num(s[m])] : s \in good }
          \cup { [m \in 1..(dims + 1) |-> Num(1)] }
          \cup { [m \in 1..(dims - 1) |-> Num(1)] }
          \cup { [m \in 1..dims |-> IF m = dims THEN Text ELSE Num(1)] }

CountLines == {Num(v) : v \in CountVals} \cup {Text}

\* What a call of a consumer does: it returns true or false, or it throws.
ConsumerOutcomes ==
    { [ret |-> TRUE, threw |-> FALSE], [ret |-> FALSE, threw |-> FALSE],
      [ret |-> FALSE, threw |-> TRUE] }

\* catch (...) { throw line_number; } of parse_ascii (line 179) and
\* catch (...) { throw 1; } of parse_binary (line 269).
catch_all_rethrow(binary) == ThrowException

catch_all(binary) == IF binary THEN ThrowInt(1) ELSE ThrowInt(line_number)

\* for (auto & function : functions) { if (!function(mesh)) break; }
\* TRUE when the loop goes on to the consumer after position idx.
fanout_continues_nobreak(ret, idx, len) == idx < len

fanout_continues(ret, idx, len) == ret /\ idx < len

\* Where the block loop goes after block n is finished:
\* for (int n = 0; n < number_of_blocks; n++).
after_block_short(binary) ==
    IF n + 2 < number_of_blocks
    THEN [pc |-> IF binary THEN "binary_block" ELSE "ascii_block", n |-> n + 1]
    ELSE [pc |-> "done", n |-> n + 1]

after_block(binary) ==
    IF n + 1 < number_of_blocks
    THEN [pc |-> IF binary THEN "binary_block" ELSE "ascii_block", n |-> n + 1]
    ELSE [pc |-> "done", n |-> n + 1]

(***************************************************************************)
(* parse_ascii                                                             *)
(***************************************************************************)
\* lines 113-122: the block count and the resize of the extents table.
parse_ascii_count ==
    /\ pc = "ascii_count"
    /\ in_sections' = IF single_block THEN in_sections
                       ELSE Append(in_sections, "count")
    /\ \E this_line \in CountLines :
         LET nb == IF single_block THEN 1 ELSE atoi(this_line)
             ln == IF single_block THEN line_number ELSE line_number + 1
         IN  /\ line_number' = ln
             /\ number_of_blocks' = nb
             /\ input_malformed' = (nb < 1)
             /\ IF nb < 0
                THEN \* vect.resize(negative) throws std::length_error
                     /\ pc' = "error"
                     /\ thrown' = ThrowInt(ln)
                     /\ UNCHANGED extents
                ELSE /\ pc' = IF nb = 0 THEN "done" ELSE "ascii_extents"
                     /\ extents' = [m \in 1..dimensions |->
                                       [b \in 1..nb |-> 0]]
                     /\ UNCHANGED thrown
    /\ n' = 0
    /\ UNCHANGED << cfg_vars, fortran_input, mesh, fidx, in_pos, in_fail, record_open_flag,
                    calls >>

\* lines 124-132: one iteration of the extents loop.
parse_ascii_extents ==
    /\ pc = "ascii_extents"
    /\ in_sections' = Append(in_sections, "extents")
    /\ \E strings \in ExtentLines(dimensions, n, extents) :
         LET bad == (Len(strings) < dimensions)
                      \/ (\E m \in 1..dimensions : ~stoi_ok(strings[m]))
         IN  /\ line_number' = line_number + 1
             /\ input_malformed' = (input_malformed \/ bad)
             /\ IF bad
                THEN /\ pc' = "error"
                     /\ thrown' = ThrowInt(line_number + 1)
                     /\ UNCHANGED << extents, n >>
                ELSE /\ extents' = [m \in 1..dimensions |->
                                      [extents[m] EXCEPT ![n + 1] = stoi(strings[m])]]
                     /\ IF n + 1 < number_of_blocks
                        THEN /\ n' = n + 1
                             /\ pc' = "ascii_extents"
                        ELSE /\ n' = 0
                             /\ pc' = "ascii_block"
                     /\ UNCHANGED thrown
    /\ UNCHANGED << cfg_vars, fortran_input, number_of_blocks, mesh, fidx, in_pos, in_fail,
                    record_open_flag, calls >>

\* lines 135-159: allocate block n and read its coordinates.
parse_ascii_block ==
    /\ pc = "ascii_block"
    /\ in_sections' = Append(in_sections, "coordinates")
    /\ LET i_ext == extents[1][n + 1]
           j_ext == extents[2][n + 1]
           k_ext == IF dimensions = 3 THEN extents[3][n + 1] ELSE 1
           need  == dimensions * i_ext * j_ext * k_ext
       IN  \E avail \in FailPoints(need) :
             LET st == read_block(i_ext, j_ext, k_ext, dimensions, FALSE,
                          [mesh  |-> set_extent(i_ext, j_ext, k_ext),
                           pos   |-> in_pos,
                           fail  |-> in_fail,
                           avail |-> avail])
             IN  /\ mesh' = st.mesh
                 /\ in_pos' = st.pos
                 /\ in_fail' = st.fail
                 /\ input_malformed' = (input_malformed \/ st.fail)
    /\ IF functions = << >>
       THEN /\ pc' = after_block(FALSE).pc
            /\ n' = after_block(FALSE).n
            /\ fidx' = 0
       ELSE /\ pc' = "ascii_fanout"
            /\ fidx' = 1
            /\ UNCHANGED n
    /\ UNCHANGED << cfg_vars, fortran_input, number_of_blocks, extents, line_number, thrown,
                    record_open_flag, calls >>

\* lines 160-162 and 173-175: one consumer invocation of the fan-out.
parse_ascii_call ==
    /\ pc = "ascii_fanout"
    /\ \E outcome \in ConsumerOutcomes :
         /\ calls' = Append(calls, [block |-> n, dim |-> dimensions,
                                    f |-> functions[fidx],
                                    ret |-> outcome.ret,
                                    threw |-> outcome.threw,
                                    blk |-> dispatched_block])
         /\ IF outcome.threw
            THEN /\ fidx' = 0
                 /\ pc' = "error"
                 /\ thrown' = catch_all(FALSE)
                 /\ UNCHANGED n
            ELSE IF fanout_continues(outcome.ret, fidx, Len(functions))
            THEN /\ fidx' = fidx + 1
                 /\ UNCHANGED << pc, n, thrown >>
            ELSE /\ fidx' = 0
                 /\ pc' = after_block(FALSE).pc
                 /\ n' = after_block(FALSE).n
                 /\ UNCHANGED thrown
    /\ UNCHANGED << cfg_vars, fortran_input, number_of_blocks, extents,
                    line_number, mesh, in_pos, in_fail, record_open_flag,
                    input_malformed, in_sections >>


(***************************************************************************)
(* parse_binary.  FortranSequentialInputStream::record_open reads the      *)
(* leading length of a record, record_close reads the trailing length and  *)
(* fails when the two differ.                                              *)
(***************************************************************************)
\* The trailing lengths offered for a record whose leading length is
\* `leading`: the same length, or a different one.
TrailingLengths(leading) == {leading, leading + 1}

\* record_close: TRUE when the trailing length read equals the leading
\* length record_open has read.
record_close_ok(leading, trailing) == leading = trailing

\* What the trace of the input records of a trailing length: nothing
\* when it equals the leading length.
trailer_section(trailer_matches) ==
    IF trailer_matches THEN << >> ELSE << "bad_trailer" >>

\* fortran_input.record_close(input_stream) at the end of a block, inside
\* try { ... } catch (...) { throw 1; }
block_close_unchecked(trailer_matches) ==
    [pc |-> after_block(TRUE).pc, n |-> after_block(TRUE).n, thrown |-> thrown]

block_close(trailer_matches) ==
    IF trailer_matches
    THEN [pc |-> after_block(TRUE).pc, n |-> after_block(TRUE).n,
          thrown |-> thrown]
    ELSE [pc |-> "error", n |-> n, thrown |-> ThrowInt(1)]

\* What is done with the stream through fortran_input, in order:
\* record_open with the leading length it reads, unpack_binary_to_struct
\* of an int with the value it reads, record_close with the trailing
\* length it reads.  (The doubles of a block are counted by in_pos.)
record_open(leading) == [op |-> "record_open", value |-> leading]
unpack_int(value) == [op |-> "int", value |-> value]
record_close(trailing) == [op |-> "record_close", value |-> trailing]

\* lines 203-206: the record of the block count.
count_record_unframed(value, trailing) == << unpack_int(value) >>

count_record(value, trailing) ==
    << record_open(4), unpack_int(value), record_close(trailing) >>

\* The integers of the extents record of a file whose blocks have the
\* extents table[b] (b-th block, extents in the order i, j, k).
table_record(table, dims) ==
    [v \in 1..(dims * Len(table)) |->
        table[((v - 1) \div dims) + 1][((v - 1) % dims) + 1]]

\* lines 212-217: for n { for m { extents[m][n] = the next integer } }.
\* The place in the record of the integer stored in extents[m][b]
\* (m and b 1-based).
extents_place_by_dimension(m, b, dims, blocks) == (m - 1) * blocks + b

extents_place(m, b, dims, blocks) == (b - 1) * dims + m

\* lines 199-209: the block-count record.
parse_binary_count ==
    /\ pc = "binary_count"
    /\ IF single_block
       THEN /\ number_of_blocks' = 1
            /\ extents' = [m \in 1..dimensions |-> [b \in 1..1 |-> 0]]
            /\ pc' = "binary_extents"
            /\ UNCHANGED << thrown, input_malformed, in_sections,
                            fortran_input >>
       ELSE \E value \in CountVals, trailing \in TrailingLengths(4) :
              LET trailer_matches == record_close_ok(4, trailing) IN
              /\ in_sections' = in_sections \o << "count" >>
                                   \o trailer_section(trailer_matches)
              /\ fortran_input' = fortran_input
                                     \o count_record(value, trailing)
              /\ number_of_blocks' = value
              /\ input_malformed' = (value < 1 \/ ~trailer_matches)
              /\ IF ~trailer_matches
                 THEN \* record_close fails, outside of any try block
                      /\ pc' = "error"
                      /\ thrown' = ThrowException
                      /\ UNCHANGED extents
                 ELSE IF value < 1
                 THEN /\ pc' = "error"
                      /\ thrown' = ThrowInt(0 - 1)
                      /\ UNCHANGED extents
                 ELSE /\ pc' = "binary_extents"
                      /\ extents' = [m \in 1..dimensions |->
                                        [b \in 1..value |-> 0]]
                      /\ UNCHANGED thrown
    /\ n' = 0
    /\ UNCHANGED << cfg_vars, line_number, mesh, fidx, in_pos, in_fail,
                    record_open_flag, calls >>

\* lines 211-218: the record holding the whole extents table, block by
\* block, `dimensions` integers per block.
parse_binary_extents ==
    /\ pc = "binary_extents"
    /\ \E table \in FileTables(dimensions, number_of_blocks),
          trailing \in TrailingLengths(4 * dimensions * number_of_blocks) :
         LET trailer_matches ==
                 record_close_ok(4 * dimensions * number_of_blocks, trailing)
         IN
         /\ in_sections' = in_sections \o << "extents" >>
                              \o trailer_section(trailer_matches)
         /\ fortran_input' =
                fortran_input
                  \o << record_open(4 * dimensions * number_of_blocks) >>
                  \o [v \in 1..(dimensions * number_of_blocks) |->
                        unpack_int(table_record(table, dimensions)[v])]
                  \o << record_close(trailing) >>
         /\ extents' = [m \in 1..dimensions |->
                           [b \in 1..number_of_blocks |->
                               table_record(table, dimensions)
                                 [extents_place(m, b, dimensions,
                                                number_of_blocks)]]]
         /\ input_malformed' = (input_malformed \/ ~trailer_matches)
         /\ IF trailer_matches
            THEN /\ pc' = "binary_block"
                 /\ UNCHANGED thrown
            ELSE /\ pc' = "error"
                 /\ thrown' = ThrowException
    /\ n' = 0
    /\ UNCHANGED << cfg_vars, number_of_blocks, line_number, mesh, fidx,
                    in_pos, in_fail, record_open_flag, calls >>

\* lines 249-266: what follows the reading of a block's coordinates: the
\* fan-out to the consumers, then record_close.
after_read_close_first(consumers) == "binary_close"

after_read(consumers) ==
    IF consumers = << >> THEN "binary_close" ELSE "binary_fanout"

\* lines 222-248: allocate block n, open its record, read its coordinates.
parse_binary_block ==
    /\ pc = "binary_block"
    /\ in_sections' = Append(in_sections, "coordinates")
    /\ LET i_ext == extents[1][n + 1]
           j_ext == extents[2][n + 1]
           k_ext == IF dimensions = 3 THEN extents[3][n + 1] ELSE 1
           st == read_block(i_ext, j_ext, k_ext, dimensions, TRUE,
                    [mesh  |-> set_extent(i_ext, j_ext, k_ext),
                     pos   |-> in_pos,
                     fail  |-> in_fail,
                     avail |-> 0])
       IN  /\ mesh' = st.mesh
           /\ in_pos' = st.pos
           /\ fortran_input' =
                  Append(fortran_input,
                         record_open(8 * dimensions * i_ext * j_ext * k_ext))
    /\ record_open_flag' = TRUE
    /\ pc' = after_read(functions)
    /\ fidx' = IF functions = << >> THEN 0 ELSE 1
    /\ UNCHANGED << cfg_vars, number_of_blocks, extents, line_number, n,
                    thrown, in_fail, input_malformed, calls >>

\* lines 249-251 and 262-264: one consumer invocation of the fan-out.
parse_binary_call ==
    /\ pc = "binary_fanout"
    /\ \E outcome \in ConsumerOutcomes :
         /\ calls' = Append(calls, [block |-> n, dim |-> dimensions,
                                    f |-> functions[fidx],
                                    ret |-> outcome.ret,
                                    threw |-> outcome.threw,
                                    blk |-> dispatched_block])
         /\ IF outcome.threw
            THEN /\ fidx' = 0
                 /\ pc' = "error"
                 /\ thrown' = catch_all(TRUE)
            ELSE IF fanout_continues(outcome.ret, fidx, Len(functions))
            THEN /\ fidx' = fidx + 1
                 /\ UNCHANGED << pc, thrown >>
            ELSE /\ fidx' = 0
                 /\ pc' = "binary_close"
                 /\ UNCHANGED thrown
    /\ UNCHANGED << cfg_vars, fortran_input, number_of_blocks, extents,
                    line_number, n, mesh, in_pos, in_fail, record_open_flag,
                    input_malformed, in_sections >>

\* line 266 and the catch of line 269: close the block's record.
parse_binary_record_close ==
    /\ pc = "binary_close"
    /\ record_open_flag' = FALSE
    /\ \E trailing \in TrailingLengths(8 * dimensions * Cardinality(DOMAIN mesh.coord)) :
         LET trailer_matches ==
                 record_close_ok(8 * dimensions * Cardinality(DOMAIN mesh.coord),
                                 trailing)
         IN
         /\ in_sections' = in_sections \o trailer_section(trailer_matches)
         /\ fortran_input' = Append(fortran_input, record_close(trailing))
         /\ input_malformed' = (input_malformed \/ ~trailer_matches)
         /\ pc' = block_close(trailer_matches).pc
         /\ n' = block_close(trailer_matches).n
         /\ thrown' = block_close(trailer_matches).thrown
    /\ UNCHANGED << cfg_vars, number_of_blocks, extents, line_number, mesh,
                    fidx, in_pos, in_fail, calls >>

(***************************************************************************)
(* The parser's specification.                                             *)
(***************************************************************************)
Dimensionalities == {0 - 1, 2, 3}

NextParser ==
    \/ \E sb \in BOOLEAN, bin \in BOOLEAN, dims \in Dimensionalities :
         set_options(sb, bin, dims)
    \/ add_2D_block_function
    \/ add_3D_block_function
    \/ main_parser
    \/ parse_ascii_count
    \/ parse_ascii_extents
    \/ parse_ascii_block
    \/ parse_ascii_call
    \/ parse_binary_count
    \/ parse_binary_extents
    \/ parse_binary_block
    \/ parse_binary_call
    \/ parse_binary_record_close

SpecParser == InitParser /\ [][NextParser]_vars


(***************************************************************************)
(* Properties of the parser.                                               *)
(***************************************************************************)
in_fanout == pc \in {"ascii_fanout", "binary_fanout"}
parse_ended == pc \in {"done", "error", "aborted"}
read_sections == { in_sections[p] : p \in 1..Len(in_sections) }

\* C1: for every block the consumers of the active dimensionality are
\* invoked in registration order, starting at the first registered one, up
\* to and including the first that returns false; none after it is invoked
\* for that block, and the next block starts again at the first consumer.
C1_FanOutShortCircuit ==
    \A p \in 1..Len(calls) :
        /\ calls[p].f.dim = number_of_dimensions
        /\ calls[p].f = functions[calls[p].f.k]
        /\ IF p = 1 \/ calls[p - 1].block # calls[p].block
           THEN calls[p].f.k = 1
           ELSE calls[p - 1].ret /\ calls[p].f.k = calls[p - 1].f.k + 1
        /\ ( \/ (p < Len(calls) /\ calls[p + 1].block # calls[p].block)
             \/ (p = Len(calls) /\ ~in_fanout) )
             => (~calls[p].ret \/ calls[p].f.k = Len(functions))

\* Witness of C1: with two consumers registered, the first returned false
\* for block 0, the second was skipped, and block 1 was handed to the
\* first consumer again.
C1_Witness ==
    /\ Len(functions) = 2
    /\ Len(calls) >= 2
    /\ calls[1].block = 0
    /\ calls[1].dim = number_of_dimensions
    /\ calls[1].f = functions[1]
    /\ ~calls[1].ret
    /\ calls[2].block = 1
    /\ calls[2].f = functions[1]

first_consumer_calls == SelectSeq(calls, LAMBDA c : c.f.k = 1)

\* A consumer has thrown instead of returning.
consumer_threw == \E p \in 1..Len(calls) : calls[p].threw

\* C2: on a well-formed input every block of the file, in file order, is
\* handed to the first registered consumer, whatever the consumers return:
\* the parse ends normally after exactly number_of_blocks dispatches; in
\* single-block mode no block count is read and one block is dispatched.
C2_AllBlocksDispatched ==
    /\ \A p \in 1..Len(first_consumer_calls) :
           first_consumer_calls[p].block = p - 1
    /\ ( /\ parse_ended
         /\ ~input_malformed
         /\ ~consumer_threw
         /\ number_of_dimensions \in {2, 3} )
         => /\ pc = "done"
            /\ functions # << >> =>
                   Len(first_consumer_calls) = number_of_blocks
            /\ single_block =>
                   (number_of_blocks = 1 /\ "count" \notin read_sections)
            /\ ~single_block => in_sections[1] = "count"

\* Witness of C2: a two-block file parsed to its end although every
\* consumer invocation returned false.
C2_Witness ==
    /\ pc = "done"
    /\ ~input_malformed
    /\ number_of_blocks = 2
    /\ Len(functions) = 2
    /\ Len(calls) = 2
    /\ \A p \in 1..Len(calls) : ~calls[p].ret

\* C3 (the claim as stated): a block count of 0 or less, read from the
\* file, ends the parse with an error in either encoding, before a block
\* is allocated or a consumer invoked.
C3_NonPositiveCountRejected ==
    ("count" \in read_sections /\ number_of_blocks < 1)
        => (pc = "error" /\ mesh = NoMesh /\ calls = << >>)

\* C4 (the claim as stated): a coordinate value that cannot be read ends
\* parse_ascii with a thrown error, so no block is dispatched, and the
\* parse does not go on, once the stream has failed.
C4_AsciiReadFailureThrows ==
    (~parse_as_binary /\ in_fail) => pc = "error"


(***************************************************************************)
(* VtkWriter.  The output stream is modelled as the sequence of things     *)
(* written to it: the XML prologue, opening and closing tags, single       *)
(* characters and the character buffers of data arrays.                    *)
(***************************************************************************)
Ev(e, tag, name, format, offset, serial, len, values) ==
    [e |-> e, tag |-> tag, name |-> name, format |-> format,
     offset |-> offset, serial |-> serial, len |-> len, values |-> values]

EvHeader == Ev("header", "", "", "", 0 - 1, 0, 0, << >>)
EvOpen(tag, attr) == Ev("open", tag, "", attr, 0 - 1, 0, 0, << >>)
EvClose(tag) == Ev("close", tag, "", "", 0 - 1, 0, 0, << >>)
EvChar(c) == Ev("char", c, "", "", 0 - 1, 0, 0, << >>)
\* <DataArray Name=name format=format [Offset=offset]>; serial numbers the
\* data arrays in the order in which they are written.
EvDataArray(name, format, offset, serial) ==
    Ev("open", "DataArray", name, format, offset, serial, 0, << >>)
\* The characters of a buffer, written one by one.
EvPayload(buf) ==
    Ev("payload", "", buf.name, "", 0 - 1, buf.serial, buf.len, buf.values)

\* The state a call of the writer works on: the stream, the tag stack of
\* m_xml_writer, m_appended_data, and how the call is going ("ok", "throw":
\* an exception left the call, "abort": the process was terminated).
writer_state == [out |-> out, stack |-> m_tag_stack, data |-> m_appended_data,
                 st |-> "ok"]

write(w, ev) ==
    IF w.st # "ok" THEN w ELSE [w EXCEPT !.out = Append(@, ev)]

\* m_xml_writer.open_tag(stream, name, attributes)
open_tag(w, ev) ==
    IF w.st # "ok" THEN w
    ELSE [w EXCEPT !.out = Append(@, ev), !.stack = Append(@, ev.tag)]

\* m_xml_writer.close_tag(stream): closes the innermost open tag; with no
\* tag open the call cannot succeed.
close_tag(w) ==
    IF w.st # "ok" THEN w
    ELSE IF w.stack = << >> THEN [w EXCEPT !.st = "abort"]
    ELSE [w EXCEPT !.out = Append(@, EvClose(w.stack[Len(w.stack)])),
                   !.stack = SubSeq(@, 1, Len(@) - 1)]

\* m_xml_writer.header(ostream, "1.0", "UTF-8")
xml_header(w) == write(w, EvHeader)

\* appended_data_bytelength(): acc += arr.size() over m_appended_data.
RECURSIVE appended_data_bytelength(_)
appended_data_bytelength(data) ==
    IF data = << >> THEN 0
    ELSE data[1].len + appended_data_bytelength(Tail(data))

\* vtk_data_array_format_options(): `throw;` with no exception being
\* handled calls std::terminate.
vtk_data_array_format_options_lenient(asc, app, data) ==
    IF app
    THEN [st |-> "ok", format |-> "appended",
          offset |-> appended_data_bytelength(data)]
    ELSE [st |-> "ok", format |-> IF asc THEN "ascii" ELSE "binary",
          offset |-> 0 - 1]

vtk_data_array_format_options(asc, app, data) ==
    IF app
    THEN IF asc
         THEN [st |-> "abort", format |-> "", offset |-> 0 - 1]
         ELSE [st |-> "ok", format |-> "appended",
               offset |-> appended_data_bytelength(data)]
    ELSE [st |-> "ok", format |-> IF asc THEN "ascii" ELSE "binary",
          offset |-> 0 - 1]

\* HBTK::encode_base64: 4 characters for every 3 bytes, padded.
Base64Length(n_bytes) == 4 * ((n_bytes + 2) \div 3)

\* The text form of the values: every value of the model is one digit,
\* followed by '\n' (scalars, integers) or by ' ' with a '\n' after every
\* third value (vectors, points).
AsciiLength(arr) ==
    2 * Len(arr.values)
      + (IF arr.components = 3 THEN Len(arr.values) \div 3 ELSE 0)

\* vtk_data_array_generate_buffer(...): the characters written for the
\* array; binary: an 8 byte length followed by 8 bytes per value, base64.
vtk_data_array_generate_buffer(asc, arr, serial) ==
    [serial |-> serial, name |-> arr.name, values |-> arr.values,
     len |-> IF asc THEN AsciiLength(arr)
             ELSE Base64Length(8 + 8 * Len(arr.values))]

data_arrays_written(o) ==
    Cardinality({ p \in 1..Len(o) : o[p].e = "open" /\ o[p].tag = "DataArray" })

\* vtk_data_array(ostream, name, values), the same for the four overloads.
vtk_data_array(w, arr) ==
    IF w.st # "ok" THEN w
    ELSE LET fmt == vtk_data_array_format_options(ascii, appended, w.data)
             serial == data_arrays_written(w.out) + 1
             buf == vtk_data_array_generate_buffer(ascii, arr, serial)
             opened == open_tag(w, EvDataArray(arr.name, fmt.format,
                                               fmt.offset, serial))
             kept == IF appended
                     THEN [opened EXCEPT !.data = Append(@, buf)]
                     ELSE opened
             inline == IF ~appended THEN write(kept, EvPayload(buf)) ELSE kept
         IN  IF fmt.st # "ok" THEN [w EXCEPT !.st = fmt.st]
             ELSE close_tag(inline)

RECURSIVE vtk_data_arrays(_, _)
vtk_data_arrays(w, arrs) ==
    IF arrs = << >> THEN w
    ELSE vtk_data_arrays(vtk_data_array(w, arrs[1]), Tail(arrs))


(***************************************************************************)
(* The datasets handed to write_piece (VtkUnstructuredDataset): a mesh of  *)
(* points and cells, and named integer, scalar and vector fields.          *)
(***************************************************************************)
Field(name, values) == [name |-> name, values |-> values]

Dataset(points, cells, ipd, spd, vpd, icd, scd, vcd) ==
    [mesh |-> [points |-> points, cells |-> cells],
     integer_point_data |-> ipd, scalar_point_data |-> spd,
     vector_point_data |-> vpd, integer_cell_data |-> icd,
     scalar_cell_data |-> scd, vector_cell_data |-> vcd]

DatasetNames == {"one_point", "line"}

DatasetOf(name) ==
    IF name = "one_point"
    THEN Dataset(<< << 1, 2, 3 >> >>, << >>,
                 << >>, << >>, << >>, << >>, << >>, << >>)
    ELSE Dataset(<< << 0, 0, 0 >>, << 1, 0, 0 >> >>,
                 << [cell_type |-> 3, node_ids |-> << 0, 1 >>] >>,
                 << >>, << Field("p", << 5, 6 >>) >>, << >>,
                 << Field("id", << 7 >>) >>, << >>, << >>)

\* One array as vtk_data_array sees it.
Array(name, components, values) ==
    [name |-> name, components |-> components, values |-> values]

RECURSIVE flatten(_)
flatten(seqs) ==
    IF seqs = << >> THEN << >> ELSE seqs[1] \o flatten(Tail(seqs))

\* scratch[i] = offset_counter after offset_counter += node_ids.size()
cell_offsets_per_cell(cells, offset_counter) ==
    [i \in 1..Len(cells) |-> Len(cells[i].node_ids)]

RECURSIVE cell_offsets(_, _)
cell_offsets(cells, offset_counter) ==
    IF cells = << >> THEN << >>
    ELSE << offset_counter + Len(cells[1].node_ids) >>
           \o cell_offsets(Tail(cells),
                           offset_counter + Len(cells[1].node_ids))

scalar_arrays(fields) ==
    [f \in 1..Len(fields) |-> Array(fields[f].name, 1, fields[f].values)]
vector_arrays(fields) ==
    [f \in 1..Len(fields) |->
        Array(fields[f].name, 3, flatten(fields[f].values))]

\* vtk_unstructured_file_header
vtk_unstructured_file_header(w) ==
    open_tag(open_tag(w, EvOpen("VTKFile", "UnstructuredGrid")),
             EvOpen("UnstructuredGrid", ""))

\* vtk_unstructured_piece
vtk_unstructured_piece(w, num_points, num_cells) ==
    open_tag(w, Ev("open", "Piece", "", "", 0 - 1, 0, 0,
                   << num_points, num_cells >>))

\* vtk_unstructured_cells
vtk_unstructured_cells(w, umesh) ==
    LET types == Array("types", 1,
                   [i \in 1..Len(umesh.cells) |-> umesh.cells[i].cell_type])
        offsets == Array("offsets", 1, cell_offsets(umesh.cells, 0))
        connectivity == Array("connectivity", 1,
                   flatten([i \in 1..Len(umesh.cells) |->
                               umesh.cells[i].node_ids]))
    IN  close_tag(vtk_data_arrays(open_tag(w, EvOpen("Cells", "")),
                                  << types, offsets, connectivity >>))

\* vtk_unstructured_mesh
vtk_unstructured_mesh(w, umesh) ==
    LET points == Array("Points", 3, flatten(umesh.points))
    IN  vtk_unstructured_cells(
            close_tag(vtk_data_array(open_tag(w, EvOpen("Points", "")),
                                     points)),
            umesh)

\* vtk_unstructured_point_data
vtk_unstructured_point_data(w, data) ==
    close_tag(vtk_data_arrays(open_tag(w, EvOpen("PointData", "")),
                  scalar_arrays(data.integer_point_data)
                    \o scalar_arrays(data.scalar_point_data)
                    \o vector_arrays(data.vector_point_data)))

\* vtk_unstructured_cell_data
vtk_unstructured_cell_data(w, data) ==
    close_tag(vtk_data_arrays(open_tag(w, EvOpen("CellData", "")),
                  scalar_arrays(data.integer_cell_data)
                    \o scalar_arrays(data.scalar_cell_data)
                    \o vector_arrays(data.vector_cell_data)))

(***************************************************************************)
(* The operations of VtkWriter.                                            *)
(***************************************************************************)
FileTypes == {"None", "UnstructuredGrid"}

writer_alive ==
    /\ Len(wcalls) < MaxCalls
    /\ IF wcalls = << >> THEN TRUE
       ELSE wcalls[Len(wcalls)].result # "abort"

\* What is recorded of a call: the operation, its argument, the encoding
\* flags and m_file_type it ran with, how it ended, the open tags before
\* and after it, and the parts of the stream and of m_appended_data it
\* produced (out0+1..out1, buf0+1..buf1).
call_record(op, arg, w) ==
    [op |-> op, arg |-> arg, result |-> w.st,
     ascii |-> ascii, appended |-> appended, type0 |-> m_file_type,
     tags0 |-> m_tag_stack, tags1 |-> w.stack,
     out0 |-> Len(out), out1 |-> Len(w.out),
     buf0 |-> Len(m_appended_data), buf1 |-> Len(w.data)]

finish_call(op, arg, w) ==
    /\ out' = w.out
    /\ m_tag_stack' = w.stack
    /\ m_appended_data' = w.data
    /\ wcalls' = Append(wcalls, call_record(op, arg, w))

\* The caller chooses the encoding (public fields ascii and appended)
\* between sessions.
set_encoding(asc, app) ==
    /\ writer_alive
    /\ m_tag_stack = << >>
    /\ << asc, app >> # << ascii, appended >>
    /\ ascii' = asc
    /\ appended' = app
    /\ finish_call("set_encoding", "", writer_state)
    /\ UNCHANGED << ndebug, pvars, tvars, ivars, m_written_xml_header, m_file_type >>

\* open_file(stream, file_type)
open_file_effect(w, file_type) ==
    LET headed == IF ~m_written_xml_header THEN xml_header(w) ELSE w
    IN  IF file_type = "UnstructuredGrid"
        THEN vtk_unstructured_file_header(headed)
        ELSE [headed EXCEPT !.st = "throw"]

\* m_file_type after open_file: assigned in the UnstructuredGrid case only,
\* after the file header has been written.
open_file_type_always(w, file_type) == file_type

open_file_type(w, file_type) ==
    IF w.st = "ok" THEN file_type ELSE m_file_type

open_file(file_type) ==
    /\ writer_alive
    /\ LET w == open_file_effect(writer_state, file_type)
       IN  /\ finish_call("open_file", file_type, w)
           /\ m_file_type' = open_file_type(w, file_type)
    /\ UNCHANGED << ndebug, pvars, tvars, ivars, m_written_xml_header, ascii, appended >>

\* m_xml_writer.close_tag(stream); // piece   (line 368)
piece_close_missing(w) == w

piece_close(w) == close_tag(w)

\* write_piece(stream, data)
write_piece_effect(w, data) ==
    IF ~ndebug /\ (m_file_type = "None" \/ (ascii /\ appended))
    THEN [w EXCEPT !.st = "abort"]                \* assert(...) fails
    ELSE IF m_file_type # "UnstructuredGrid"
    THEN [w EXCEPT !.st = "throw"]                \* std::runtime_error
    ELSE piece_close(
           vtk_unstructured_cell_data(
             vtk_unstructured_point_data(
               vtk_unstructured_mesh(
                 vtk_unstructured_piece(w, Len(data.mesh.points),
                                        Len(data.mesh.cells)),
                 data.mesh),
               data),
             data))

write_piece(name) ==
    /\ writer_alive
    /\ finish_call("write_piece", name,
                   write_piece_effect(writer_state, DatasetOf(name)))
    /\ UNCHANGED << ndebug, pvars, tvars, ivars, m_written_xml_header, m_file_type, ascii,
                    appended >>

\* close_file(stream)
RECURSIVE write_buffers(_, _)
write_buffers(w, data) ==
    IF data = << >> THEN w
    ELSE write_buffers(write(w, EvPayload(data[1])), Tail(data))

close_file_effect(w) ==
    LET grid_closed == close_tag(w)
        trailer ==
            IF Len(w.data) # 0
            THEN close_tag(
                   write_buffers(
                     write(open_tag(grid_closed,
                                    EvOpen("AppendedData",
                                           IF ascii THEN "ascii"
                                                    ELSE "base64")),
                           EvChar("_")),
                     w.data))
            ELSE grid_closed
    IN  close_tag(trailer)

close_file ==
    /\ writer_alive
    /\ finish_call("close_file", "", close_file_effect(writer_state))
    /\ UNCHANGED << ndebug, pvars, tvars, ivars, m_written_xml_header, m_file_type, ascii,
                    appended >>

InitWriter ==
    /\ ndebug \in BOOLEAN
    /\ Plot3DParser_ctor
    /\ VtkWriter_ctor
    /\ DoubleTable_ctor
    /\ integrators_idle

NextWriter ==
    \/ \E asc \in BOOLEAN, app \in BOOLEAN : set_encoding(asc, app)
    \/ \E file_type \in FileTypes : open_file(file_type)
    \/ \E name \in DatasetNames : write_piece(name)
    \/ close_file

SpecWriter == InitWriter /\ [][NextWriter]_vars


\* The number of blocks whose coordinates have been read so far; the last
\* of them is the block held in `mesh`.
blocks_read ==
    Cardinality({ x \in DOMAIN in_sections : in_sections[x] = "coordinates" })

\* Extents (I, J, K) of block b (1-based) as the extents table gives them.
block_extent(b) ==
    << extents[1][b], extents[2][b],
       IF number_of_dimensions = 3 THEN extents[3][b] ELSE 1 >>

block_points(b) == block_extent(b)[1] * block_extent(b)[2] * block_extent(b)[3]

\* The number of coordinate values of the file that come before block b.
RECURSIVE block_start(_)
block_start(b) ==
    IF b = 1 THEN 0
    ELSE block_start(b - 1) + number_of_dimensions * block_points(b - 1)

\* C14: a block of extents (I, J, K) takes its X values, then its Y values,
\* then (3D only) its Z values from the input, each pass with k outermost
\* and i innermost; the n-th value of a pass ends up in that component of
\* the point at the n-th index, and the block takes dimensions * I * J * K
\* values in all.
C14_ReadOrder ==
    (blocks_read > 0 /\ ~in_fail) =>
        LET e == block_extent(blocks_read)
            start == block_start(blocks_read)
            points == e[1] * e[2] * e[3]
        IN  /\ mesh.extent = e
            /\ DOMAIN mesh.coord = Indices3(e[1], e[2], e[3])
            /\ \A idx \in Indices3(e[1], e[2], e[3]) :
                 \A c \in 1..number_of_dimensions :
                    mesh.coord[idx][c] =
                        TokenValue(start + (c - 1) * points
                                     + idx[3] * e[1] * e[2]
                                     + idx[2] * e[1] + idx[1])
            /\ in_pos = start + number_of_dimensions * points

\* Witness of C14: the second block of a 3D ascii file, with more than one
\* point in each of the i and j directions, has been read.
C14_Witness ==
    /\ ~parse_as_binary
    /\ number_of_dimensions = 3
    /\ blocks_read >= 2
    /\ ~in_fail
    /\ mesh.extent[1] > 1 /\ mesh.extent[2] > 1 /\ mesh.extent[3] > 1

\* The logical mesh a file encodes, in either encoding: block b (1-based)
\* has the extents of row b of the extents table, and component c of its
\* point (i, j, k) is the value the layout puts at place
\* (c - 1) * I * J * K + k * I * J + j * I + i of the block's coordinates.
\* (e: the extents of the block, first: the place of its first value)
logical_coord(e, first, idx, c) ==
    TokenValue(first + (c - 1) * e[1] * e[2] * e[3]
                 + idx[3] * e[1] * e[2] + idx[2] * e[1] + idx[1])

logical_block(b) ==
    LET e == block_extent(b)
        first == block_start(b)
    IN  IF number_of_dimensions = 3
        THEN [extent |-> e,
              coord  |-> [idx \in Indices3(e[1], e[2], e[3]) |->
                            << logical_coord(e, first, idx, 1),
                               logical_coord(e, first, idx, 2),
                               logical_coord(e, first, idx, 3) >>]]
        ELSE [extent |-> << e[1], e[2] >>,
              coord  |-> [ij \in (0..(e[1] - 1)) \X (0..(e[2] - 1)) |->
                            << logical_coord(e, first, << ij[1], ij[2], 0 >>, 1),
                               logical_coord(e, first, << ij[1], ij[2], 0 >>, 2) >>]]

\* C15: whether the file is parsed as binary or as ascii, the consumers
\* receive the blocks of the logical mesh it encodes: block after block,
\* with the extents and the coordinates of the mesh, and all of them once
\* the parse has returned.
C15_BinaryAsciiSameBlocks ==
    ~input_malformed =>
        /\ \A b \in 1..blocks_read :
              LET lb == logical_block(b)
              IN  \A p \in 1..Len(calls) :
                     calls[p].block + 1 = b => calls[p].blk = lb
        /\ \A p \in 1..Len(calls) : calls[p].block < blocks_read
        /\ (pc = "done" /\ functions # << >> /\ number_of_blocks >= 1) =>
              /\ Len(first_consumer_calls) = number_of_blocks
              /\ \A p \in 1..number_of_blocks :
                    first_consumer_calls[p].block = p - 1

\* Witness of C15: a binary file of two blocks with more than one point
\* in a direction has been parsed to its end and its blocks dispatched.
C15_Witness ==
    /\ parse_as_binary
    /\ ~input_malformed
    /\ pc = "done"
    /\ number_of_blocks = 2
    /\ Len(first_consumer_calls) = 2
    /\ \E m \in 1..number_of_dimensions : extents[m][2] > 1

\* The last consumer call was made for the block that `mesh` still holds.
last_call_of_mesh ==
    /\ calls # << >>
    /\ calls[Len(calls)].block + 1 = blocks_read

\* C16: with 2 dimensions the working block has k extent 1 and the block
\* handed to a consumer has the extents (i_ext, j_ext) and at (i, j) the
\* x and y of the working block at (i, j, 0); only consumers registered for
\* the dimensionality of the parse are called.
C16_Projection2D ==
    /\ \A p \in 1..Len(calls) : calls[p].f.dim = number_of_dimensions
    /\ \A p \in 1..Len(calls) :
          Len(calls[p].blk.extent) = number_of_dimensions
    /\ (number_of_dimensions = 2 /\ blocks_read > 0) =>
          /\ mesh.extent = << extents[1][blocks_read],
                              extents[2][blocks_read], 1 >>
          /\ last_call_of_mesh =>
                LET b2 == calls[Len(calls)].blk
                IN  /\ b2.extent = << extents[1][blocks_read],
                                      extents[2][blocks_read] >>
                    /\ DOMAIN b2.coord =
                          (0..(b2.extent[1] - 1)) \X (0..(b2.extent[2] - 1))
                    /\ \A ij \in DOMAIN b2.coord :
                          b2.coord[ij] =
                            << mesh.coord[<< ij[1], ij[2], 0 >>][1],
                               mesh.coord[<< ij[1], ij[2], 0 >>][2] >>
    /\ (number_of_dimensions = 3 /\ last_call_of_mesh) =>
          calls[Len(calls)].blk = mesh

\* Witness of C16: a 2D parse with consumers of both kinds registered has
\* handed a block with more than one point in both directions to a 2D
\* consumer.
C16_Witness ==
    /\ number_of_dimensions = 2
    /\ m_mesh_3d_functions # << >>
    /\ last_call_of_mesh
    /\ ~in_fail
    /\ calls[Len(calls)].blk.extent[1] > 1
    /\ calls[Len(calls)].blk.extent[2] > 1

\* C17 (the claim as stated): main_parser called with number_of_dimensions
\* other than 2 or 3 ends with an error, having read nothing from the
\* input and called no consumer.
C17_BadDimensionsFail ==
    (number_of_dimensions \notin {2, 3} /\ pc # "idle") =>
        /\ pc \in {"error", "aborted"}
        /\ in_sections = << >>
        /\ in_pos = 0
        /\ calls = << >>

\* A record whose trailing length differs from its leading length has
\* been read.
bad_trailer_read ==
    \E x \in DOMAIN in_sections : in_sections[x] = "bad_trailer"

\* C18: in binary mode a record whose trailing length differs from its
\* leading length ends the parse with an error; nothing is read after that
\* trailing length and no consumer is called after it.
C18_TrailerMismatchFatal ==
    /\ [](bad_trailer_read =>
            /\ parse_as_binary
            /\ pc = "error"
            /\ thrown # NoThrow
            /\ in_sections[Len(in_sections)] = "bad_trailer"
            /\ \A p \in 1..Len(calls) : calls[p].block < blocks_read)
    /\ [][bad_trailer_read =>
             (calls' = calls /\ in_sections' = in_sections /\ in_pos' = in_pos)
         ]_vars

\* Witness of C18: the record of the first of two blocks ended with a
\* wrong trailing length; the parse has thrown and the second block has
\* not been read.
C18_Witness ==
    /\ parse_as_binary
    /\ bad_trailer_read
    /\ number_of_blocks = 2
    /\ blocks_read = 1
    /\ calls # << >>
    /\ pc = "error"
    /\ thrown = ThrowInt(1)

\* The number of text lines parse_ascii has taken from the input: the
\* block-count line and the extents lines.
lines_read ==
    Cardinality({ x \in DOMAIN in_sections :
                    in_sections[x] \in {"count", "extents"} })

\* C19 (the claim as stated): when parse_ascii fails on an extents line,
\* the integer it throws is the number of that line, the first line of the
\* input being line 1; a failure in the block loop of parse_binary throws
\* the integer 1.
C19_LineNumberThrown ==
    /\ ( /\ ~parse_as_binary
         /\ pc = "error"
         /\ in_sections # << >>
         /\ in_sections[Len(in_sections)] = "extents" )
         => thrown = ThrowInt(lines_read)
    /\ ( /\ parse_as_binary
         /\ pc = "error"
         /\ blocks_read > 0 )
         => thrown = ThrowInt(1)


(***************************************************************************)
(* Properties of the writer.                                               *)
(***************************************************************************)
Calls(op) == { p \in 1..Len(wcalls) : wcalls[p].op = op }
OkCalls(op) == { p \in Calls(op) : wcalls[p].result = "ok" }

\* The stream positions written by call p.
written_by(p) == (wcalls[p].out0 + 1)..wcalls[p].out1

is_data_array(ev) == ev.e = "open" /\ ev.tag = "DataArray"
is_trailer_tag(ev) == ev.e = "open" /\ ev.tag = "AppendedData"

\* The writer is in the Opened state when call p is made: a successful
\* open_file has not been followed by a close_file yet.
opened_before(p) ==
    \E q \in OkCalls("open_file") :
        /\ q < p
        /\ \A r \in (q + 1)..(p - 1) : wcalls[r].op # "close_file"

\* The call that opened the session call p belongs to (0: none).
session_open(p) ==
    IF \E q \in OkCalls("open_file") : q < p
    THEN CHOOSE q \in OkCalls("open_file") :
             q < p /\ \A r \in OkCalls("open_file") : r < p => r <= q
    ELSE 0

\* The calls made so far follow the writer's state machine: open_file
\* when no file is open, write_piece and close_file when one is.
orderly_calls ==
    \A p \in 1..Len(wcalls) :
        /\ wcalls[p].op = "open_file" => ~opened_before(p)
        /\ wcalls[p].op \in {"write_piece", "close_file"} => opened_before(p)

emitted_trailer(p) == \E x \in written_by(p) : is_trailer_tag(out[x])

\* C5 (the claim as stated): write_piece completes without error only in
\* the Opened state; before any open_file and after close_file it fails.
C5_WritePieceNeedsOpened ==
    \A p \in Calls("write_piece") :
        wcalls[p].result = "ok" => opened_before(p)

\* C6 (the claim as stated): at every open_file the list of appended
\* buffers is empty, also when the writer has been used for a session
\* before, so the first data array a session writes in appended mode has
\* Offset 0.
C6_SessionStartsEmpty ==
    orderly_calls =>
    /\ \A p \in OkCalls("open_file") : wcalls[p].buf0 = 0
    /\ \A p \in Calls("write_piece") : \A x \in written_by(p) :
         ( /\ is_data_array(out[x])
           /\ out[x].format = "appended"
           /\ session_open(p) # 0
           /\ \A y \in (wcalls[session_open(p)].out1 + 1)..(x - 1) :
                  ~is_data_array(out[y]) )
           => out[x].offset = 0

\* C7 (the claim as stated): once a close_file has written the
\* AppendedData element, no later close_file writes it again unless an
\* open_file came in between.
C7_TrailerOncePerSession ==
    \A p \in Calls("close_file") : \A q \in Calls("close_file") :
        (p < q /\ emitted_trailer(p) /\ emitted_trailer(q))
            => \E r \in OkCalls("open_file") : p < r /\ r < q

\* Sum of the lengths of the elements lo..hi of a sequence of buffers or
\* of payloads on the stream.
RECURSIVE sum_len(_, _, _)
sum_len(seq, lo, hi) ==
    IF hi < lo THEN 0 ELSE seq[hi].len + sum_len(seq, lo, hi - 1)

buffer_index(serial) ==
    CHOOSE b \in 1..Len(m_appended_data) : m_appended_data[b].serial = serial

\* The stream position of the '_' that starts the payload written by the
\* close_file call p.
payload_start(p) == CHOOSE x \in written_by(p) : out[x].e = "char"

\* C8 (the claim as stated): the Offset of every appended data array is
\* the total length of the buffers submitted before it in its session, and
\* is the position of its buffer in the AppendedData payload after '_'.
C8_OffsetsMatchSession ==
    orderly_calls =>
    /\ \A p \in Calls("write_piece") : \A x \in written_by(p) :
         (is_data_array(out[x]) /\ out[x].format = "appended")
           => out[x].offset =
                sum_len(m_appended_data,
                        (IF session_open(p) = 0 THEN 0
                         ELSE wcalls[session_open(p)].buf0) + 1,
                        buffer_index(out[x].serial) - 1)
    /\ \A p \in Calls("close_file") : \A y \in written_by(p) :
         out[y].e = "payload"
           => \E x \in 1..Len(out) :
                 /\ is_data_array(out[x])
                 /\ out[x].serial = out[y].serial
                 /\ out[x].offset = sum_len(out, payload_start(p) + 1, y - 1)

\* The serial numbers of the data arrays (with format in fmts) or of the
\* payloads found at the stream positions lo..hi, in stream order.
RECURSIVE serials(_, _, _)
serials(lo, hi, kind) ==
    IF hi < lo THEN << >>
    ELSE serials(lo, hi - 1, kind)
           \o (IF (kind = "appended" /\ is_data_array(out[hi])
                                     /\ out[hi].format = "appended")
                  \/ (kind = "payload" /\ out[hi].e = "payload")
               THEN << out[hi].serial >> ELSE << >>)

\* C9 (the claim as stated): the payload of every data array is written
\* exactly once: inline and not kept when appended is false; kept, and
\* written by close_file in one AppendedData element holding exactly the
\* buffers of the data arrays of the session, in order, when it is true.
C9_PayloadExactlyOnce ==
    orderly_calls =>
    /\ \A x \in 1..Len(out) : \A y \in 1..Len(out) :
         (x < y /\ out[x].e = "payload" /\ out[y].e = "payload")
            => out[x].serial # out[y].serial
    /\ \A x \in 1..Len(out) :
         is_data_array(out[x]) =>
            IF out[x].format = "appended"
            THEN out[x + 1].e = "close"
            ELSE out[x + 1].e = "payload" /\ out[x + 1].serial = out[x].serial
    /\ \A p \in OkCalls("close_file") :
         session_open(p) # 0 =>
            LET arrays == serials(wcalls[session_open(p)].out1 + 1,
                                  wcalls[p].out0, "appended")
            IN  /\ emitted_trailer(p) <=> arrays # << >>
                /\ serials(wcalls[p].out0 + 1, wcalls[p].out1, "payload")
                     = arrays

\* C10: with ascii and appended both set, write_piece fails; it has then
\* written no DataArray tag and no payload and has kept no buffer.
C10_AsciiAppendedRejected ==
    \A p \in Calls("write_piece") :
        (wcalls[p].ascii /\ wcalls[p].appended)
          => /\ wcalls[p].result # "ok"
             /\ wcalls[p].buf1 = wcalls[p].buf0
             /\ \A x \in written_by(p) :
                   ~is_data_array(out[x]) /\ out[x].e # "payload"

\* Witness of C10: write_piece was called on an open file with ascii and
\* appended set and got as far as the Points tag before it was stopped.
C10_Witness ==
    \E p \in Calls("write_piece") :
        /\ wcalls[p].ascii /\ wcalls[p].appended
        /\ wcalls[p].result = "abort"
        /\ \E x \in written_by(p) : out[x].e = "open" /\ out[x].tag = "Points"


(***************************************************************************)
(* vtk_unstructured_cells applied to meshes of up to MaxCells cells with   *)
(* up to MaxNodes nodes each, under every encoding.                        *)
(***************************************************************************)
NodeCounts ==
    UNION { [1..m -> 0..MaxNodes] : m \in 0..MaxCells }

\* The mesh whose cell i has counts[i] nodes; node j of cell i has the id
\* 10 * i + j, so that no id occurs twice.
MeshOf(counts) ==
    [points |-> << >>,
     cells |-> [i \in 1..Len(counts) |->
                  [cell_type |-> counts[i] + 1,
                   node_ids |-> [j \in 1..counts[i] |-> 10 * i + j]]]]

only_encoding_set == \A p \in 1..Len(wcalls) : wcalls[p].op = "set_encoding"

cells_call(counts) ==
    /\ writer_alive
    /\ only_encoding_set
    /\ finish_call("vtk_unstructured_cells", counts,
                   vtk_unstructured_cells(writer_state, MeshOf(counts)))
    /\ UNCHANGED << ndebug, pvars, tvars, ivars, m_written_xml_header, m_file_type, ascii,
                    appended >>

NextCells ==
    \/ \E asc \in BOOLEAN, app \in BOOLEAN :
          only_encoding_set /\ set_encoding(asc, app)
    \/ \E counts \in NodeCounts : cells_call(counts)

SpecCells == InitWriter /\ [][NextCells]_vars

\* The values of the array `name` written by call p: the payload on the
\* stream, or the buffer kept for the trailer when appended is set.
array_values(p, name) ==
    IF wcalls[p].appended
    THEN LET b == CHOOSE b \in (wcalls[p].buf0 + 1)..wcalls[p].buf1 :
                      m_appended_data[b].name = name
         IN  m_appended_data[b].values
    ELSE LET x == CHOOSE x \in written_by(p) :
                      out[x].e = "payload" /\ out[x].name = name
         IN  out[x].values

\* Sum of the node counts of the cells 1..i.
RECURSIVE node_count_sum(_, _)
node_count_sum(cells, i) ==
    IF i = 0 THEN 0
    ELSE Len(cells[i].node_ids) + node_count_sum(cells, i - 1)

\* C13: for a mesh of M cells the offsets array has M entries, entry i is
\* the number of nodes of the cells up to and including i (so it never
\* decreases and its last entry is the length of connectivity);
\* connectivity is the node ids of the cells one cell after the other; types
\* has one entry per cell.
C13_OffsetsAndConnectivity ==
    \A p \in OkCalls("vtk_unstructured_cells") :
        LET cells == MeshOf(wcalls[p].arg).cells
            M == Len(cells)
            types == array_values(p, "types")
            offsets == array_values(p, "offsets")
            connectivity == array_values(p, "connectivity")
        IN  /\ Len(offsets) = M
            /\ Len(types) = M
            /\ \A i \in 1..M : offsets[i] = node_count_sum(cells, i)
            /\ \A i \in 1..(M - 1) : offsets[i] <= offsets[i + 1]
            /\ M > 0 => offsets[M] = Len(connectivity)
            /\ Len(connectivity) = node_count_sum(cells, M)
            /\ \A i \in 1..M : \A j \in 1..Len(cells[i].node_ids) :
                  connectivity[node_count_sum(cells, i - 1) + j]
                      = cells[i].node_ids[j]

\* Witness of C13: a mesh of two cells with different numbers of nodes,
\* the second with more than one, has been written.
C13_Witness ==
    \E p \in OkCalls("vtk_unstructured_cells") :
        LET cells == MeshOf(wcalls[p].arg).cells
        IN  /\ Len(cells) >= 2
            /\ Len(cells[1].node_ids) >= 1
            /\ Len(cells[2].node_ids) >= 2
            /\ Len(cells[1].node_ids) # Len(cells[2].node_ids)


\* m_file_type when call p has returned.
type_after(p) ==
    IF p = Len(wcalls) THEN m_file_type ELSE wcalls[p + 1].type0

prologues == { x \in 1..Len(out) : out[x].e = EvHeader.e }

\* C12 (the claim as stated): the stream holds as many XML prologues as
\* open_file calls have succeeded.
C12_PrologueOncePerSession ==
    Cardinality(prologues) = Cardinality(OkCalls("open_file"))


(***************************************************************************)
(* DoubleTable.  Columns are indexed from 1 here and from 0 in the code;   *)
(* the arguments and results of the operations keep the code's indices.    *)
(***************************************************************************)
\* The state a call of the table works on, and how the call is going:
\* "ok", the name of the exception that left it, or "abort".
table_state == [data |-> m_data, names |-> m_data_names,
                fills |-> m_fill_values, dflt |-> m_default_fill_value,
                st |-> "ok", ret |-> << >>]

check_matching_sizes(t) ==
    Len(t.data) = Len(t.names) /\ Len(t.data) = Len(t.fills)

\* number_of_columns()
number_of_columns(t) == Len(t.data)

\* number_of_rows(): the length of the longest column.
RECURSIVE longest(_, _)
longest(data, max) ==
    IF data = << >> THEN max
    ELSE longest(Tail(data), IF Len(data[1]) > max THEN Len(data[1]) ELSE max)

number_of_rows(t) == longest(t.data, 0)

\* fill_to_match_columns(): every column shorter than the longest one is
\* resized to its length and the new places get the column's fill value.
fill_to_match_columns_by_default(t) ==
    LET rows_needed == number_of_rows(t)
    IN  [t EXCEPT !.data =
            [i \in 1..Len(t.data) |->
                [j \in 1..rows_needed |->
                    IF j <= Len(t.data[i]) THEN t.data[i][j] ELSE t.dflt]]]

fill_to_match_columns(t) ==
    LET rows_needed == number_of_rows(t)
    IN  [t EXCEPT !.data =
            [i \in 1..Len(t.data) |->
                [j \in 1..rows_needed |->
                    IF j <= Len(t.data[i]) THEN t.data[i][j]
                    ELSE t.fills[i]]]]

\* add_column(column_name, data)
add_column_effect_no_fill(t, column_name, data) ==
    [t EXCEPT !.data = Append(@, data),
              !.names = Append(@, column_name),
              !.ret = Len(t.data) + 1]

add_column_effect(t, column_name, data) ==
    [t EXCEPT !.data = Append(@, data),
              !.names = Append(@, column_name),
              !.fills = Append(@, t.dflt),
              !.ret = Len(t.data) + 1]

\* add_row(row_data)
add_row_effect(t, row_data) ==
    IF ~ndebug /\ ~check_matching_sizes(t)
    THEN [t EXCEPT !.st = "abort"]
    ELSE IF Len(row_data) # number_of_columns(t)
    THEN [t EXCEPT !.st = "length_error"]
    ELSE LET filled == fill_to_match_columns(t)
         IN  [filled EXCEPT !.data =
                 [i \in 1..Len(filled.data) |->
                     Append(filled.data[i], row_data[i])]]

\* read_row(index), index 0-based.
read_row(t, index) ==
    [i \in 1..number_of_columns(t) |->
        IF index >= Len(t.data[i]) THEN t.fills[i] ELSE t.data[i][index + 1]]

\* The outcomes of a write through operator[] at a place that is not an
\* element of the vector (undefined behaviour): the write lands outside the
\* elements and the vector is as it was, or the process is ended.
OutOfRangeOutcomes == {"silent", "crash"}

\* set_row(row, index), index 0-based.  A column is resized only when
\* index > size, so a column with size = index is written at the place one
\* past its last element.
set_row_effect(t, row, index, outcome) ==
    IF ~ndebug /\ index < 0
    THEN [t EXCEPT !.st = "abort"]
    ELSE IF Len(row) # number_of_columns(t)
    THEN [t EXCEPT !.st = "length_error"]
    ELSE LET out_of_range(i) == index < 0 \/ index = Len(t.data[i])
             column(i) ==
                 IF index > Len(t.data[i])
                 THEN [j \in 1..(index + 1) |->
                         IF j <= Len(t.data[i]) THEN t.data[i][j]
                         ELSE IF j <= index THEN t.fills[i]
                         ELSE row[i]]
                 ELSE IF out_of_range(i) THEN t.data[i]
                 ELSE [t.data[i] EXCEPT ![index + 1] = row[i]]
         IN  [t EXCEPT !.data = [i \in 1..Len(t.data) |-> column(i)],
                       !.st = IF /\ outcome = "crash"
                                 /\ \E i \in 1..Len(t.data) : out_of_range(i)
                              THEN "abort" ELSE "ok"]

\* column_index(column_name): the 0-based place of the first column of
\* that name, -1 when there is none.
column_index(t, column_name) ==
    IF \E i \in 1..Len(t.names) : t.names[i] = column_name
    THEN (CHOOSE i \in 1..Len(t.names) :
             /\ t.names[i] = column_name
             /\ \A k \in 1..(i - 1) : t.names[k] # column_name) - 1
    ELSE 0 - 1

\* fill_value(column_index): both conditions are assertions.
fill_value_at(t, idx) ==
    IF ~ndebug /\ ~(idx > 0 /\ idx < Len(t.fills))
    THEN [t EXCEPT !.st = "abort"]
    ELSE [t EXCEPT !.ret = t.fills[idx + 1]]

\* fill_value(column_heading)
fill_value_effect(t, column_heading) ==
    LET idx == column_index(t, column_heading)
    IN  IF idx = 0 - 1
        THEN [t EXCEPT !.st = "invalid_argument"]
        ELSE fill_value_at(t, idx)

\* The calls made on the table.
table_alive ==
    /\ Len(tcalls) < MaxTableCalls
    /\ IF tcalls = << >> THEN TRUE
       ELSE tcalls[Len(tcalls)].result # "abort"

finish_table_call(op, arg, t) ==
    /\ m_data' = t.data
    /\ m_data_names' = t.names
    /\ m_fill_values' = t.fills
    /\ m_default_fill_value' = t.dflt
    /\ tcalls' = Append(tcalls, [op |-> op, arg |-> arg, result |-> t.st,
                                 ret |-> t.ret, before |-> table_state])
    /\ UNCHANGED << ndebug, pvars, wvars, ivars >>

\* The values a caller puts into the table with its next call: all
\* different from each other and from the values put in before.
NewValues(len) == [i \in 1..len |-> 10 * (Len(tcalls) + 1) + i]

ColumnNames == {"a", "0"}
ColumnLengths == 1..2
FillValues == {NAN, 7}
RowIndices == 0..2
HeadingsAsked == {"b", "z"}

\* std::to_string of a small number of columns.
to_string(k) ==
    << "0", "1", "2", "3", "4", "5", "6", "7", "8", "9" >>[k + 1]

\* add_column(): the column is named after the number of columns.
add_column ==
    /\ table_alive
    /\ finish_table_call("add_column", << >>,
           add_column_effect(table_state,
                             to_string(number_of_columns(table_state)),
                             << >>))

\* add_column(column_name)
add_column_name(column_name) ==
    /\ table_alive
    /\ finish_table_call("add_column", << column_name >>,
           add_column_effect(table_state, column_name, << >>))

\* add_column(column_name, data)
add_column_name_data(column_name, len) ==
    /\ table_alive
    /\ finish_table_call("add_column", << column_name, NewValues(len) >>,
           add_column_effect(table_state, column_name, NewValues(len)))

\* add_row(row_data)
add_row(len) ==
    /\ table_alive
    /\ finish_table_call("add_row", NewValues(len),
           add_row_effect(table_state, NewValues(len)))

\* set_row(row, index)
set_row(len, index, outcome) ==
    /\ table_alive
    /\ finish_table_call("set_row", << NewValues(len), index >>,
           set_row_effect(table_state, NewValues(len), index, outcome))

\* fill_value(column_idx, desired_value), column_idx 0-based.
fill_value_set(column_idx, desired_value) ==
    /\ table_alive
    /\ m_fill_values[column_idx + 1] # desired_value
    /\ finish_table_call("fill_value", << column_idx, desired_value >>,
           [table_state EXCEPT !.fills[column_idx + 1] = desired_value])

\* fill_value(column_heading)
fill_value(column_heading) ==
    /\ table_alive
    /\ finish_table_call("fill_value_of", << column_heading >>,
           fill_value_effect(table_state, column_heading))

\* default_fill_value(new_value)
default_fill_value_set(new_value) ==
    /\ table_alive
    /\ m_default_fill_value # new_value
    /\ finish_table_call("default_fill_value", << new_value >>,
           [table_state EXCEPT !.dflt = new_value])

InitTable ==
    /\ ndebug \in BOOLEAN
    /\ Plot3DParser_ctor
    /\ VtkWriter_ctor
    /\ DoubleTable_ctor
    /\ integrators_idle

NextTable ==
    \/ add_column
    \/ \E column_name \in ColumnNames : add_column_name(column_name)
    \/ \E len \in ColumnLengths : add_column_name_data("b", len)
    \/ \E len \in {Len(m_data), Len(m_data) + 1} : add_row(len)
    \/ \E index \in RowIndices, outcome \in OutOfRangeOutcomes :
          set_row(Len(m_data), index, outcome)
    \/ set_row(Len(m_data) + 1, 0, "silent")
    \/ \E column_idx \in 0..(Len(m_data) - 1), v \in FillValues :
          fill_value_set(column_idx, v)
    \/ \E column_heading \in HeadingsAsked : fill_value(column_heading)
    \/ \E v \in FillValues : default_fill_value_set(v)

SpecTable == InitTable /\ [][NextTable]_vars

(***************************************************************************)
(* Properties of DoubleTable.                                              *)
(***************************************************************************)
TableCalls(op) == { p \in 1..Len(tcalls) : tcalls[p].op = op }

\* The table when call p has returned.
table_after(p) ==
    IF p = Len(tcalls) THEN table_state ELSE tcalls[p + 1].before

\* The greatest length of a column, 0 for a table without columns.
max_length(data) ==
    CHOOSE r \in {0} \cup { Len(data[i]) : i \in 1..Len(data) } :
        \A i \in 1..Len(data) : Len(data[i]) <= r

\* C20: add_row with a row whose size is not the number of columns throws
\* std::length_error and changes no column; otherwise every column keeps
\* what it held, is padded with its fill value up to the length R of the
\* longest column, and gets its element of the row at place R, so that all
\* columns have length R + 1 and read_row(R) is the row.
C20_AddRow ==
    \A p \in TableCalls("add_row") :
        LET t0 == tcalls[p].before
            t1 == table_after(p)
            row == tcalls[p].arg
            R == max_length(t0.data)
        IN  IF Len(row) # Len(t0.data)
            THEN /\ tcalls[p].result = "length_error"
                 /\ t1.data = t0.data
            ELSE /\ tcalls[p].result = "ok"
                 /\ Len(t1.data) = Len(t0.data)
                 /\ \A i \in 1..Len(t0.data) :
                       /\ Len(t1.data[i]) = R + 1
                       /\ \A j \in 1..Len(t0.data[i]) :
                             t1.data[i][j] = t0.data[i][j]
                       /\ \A j \in (Len(t0.data[i]) + 1)..R :
                             t1.data[i][j] = t0.fills[i]
                       /\ t1.data[i][R + 1] = row[i]
                 /\ read_row(t1, R) = row

\* Witness of C20: a row was added to a table whose two columns had
\* different lengths, the shorter one having a fill value of its own.
C20_Witness ==
    \E p \in TableCalls("add_row") :
        LET t0 == tcalls[p].before
        IN  /\ tcalls[p].result = "ok"
            /\ Len(t0.data) = 2
            /\ \E i \in 1..2 :
                  /\ Len(t0.data[i]) < max_length(t0.data)
                  /\ t0.fills[i] # t0.dflt

\* C21: set_row(row, index) with a row of the size of the table and
\* 0 <= index < number_of_rows() writes inside the columns only: the call
\* returns, every column keeps what it held elsewhere, a column shorter than
\* index + 1 is extended to that length with its fill value below index, and
\* read_row(index) is the row afterwards; with a row of another size it
\* throws std::length_error and changes nothing.
C21_SetRow ==
    \A p \in TableCalls("set_row") :
        LET t0 == tcalls[p].before
            t1 == table_after(p)
            row == tcalls[p].arg[1]
            index == tcalls[p].arg[2]
        IN  (0 <= index /\ index < max_length(t0.data)) =>
            IF Len(row) # Len(t0.data)
            THEN /\ tcalls[p].result = "length_error"
                 /\ t1.data = t0.data
            ELSE /\ tcalls[p].result = "ok"
                 /\ \A i \in 1..Len(t0.data) :
                       /\ Len(t1.data[i]) =
                             IF Len(t0.data[i]) < index + 1 THEN index + 1
                             ELSE Len(t0.data[i])
                       /\ \A j \in 1..Len(t0.data[i]) :
                             j # index + 1 => t1.data[i][j] = t0.data[i][j]
                       /\ \A j \in (Len(t0.data[i]) + 1)..index :
                             t1.data[i][j] = t0.fills[i]
                 /\ read_row(t1, index) = row

\* C22: fill_value(column_heading) returns the fill value of the column of
\* that name whenever the table has one, the first column included, and
\* throws std::invalid_argument when no column has the name.
C22_FillValueByName ==
    \A p \in TableCalls("fill_value_of") :
        LET t0 == tcalls[p].before
            heading == tcalls[p].arg[1]
        IN  IF \E i \in 1..Len(t0.names) : t0.names[i] = heading
            THEN /\ tcalls[p].result = "ok"
                 /\ \E i \in 1..Len(t0.names) :
                       /\ t0.names[i] = heading
                       /\ tcalls[p].ret = t0.fills[i]
            ELSE tcalls[p].result = "invalid_argument"

(***************************************************************************)
(* Properties of the records of parse_binary.                              *)
(***************************************************************************)
\* The place in fortran_input of the record_open of the extents record.
extents_record_start == IF single_block THEN 1 ELSE 4

extents_record_read ==
    /\ parse_as_binary
    /\ \E p \in 1..Len(in_sections) : in_sections[p] = "extents"

\* C23: in binary mode the extents table is one record of number_of_blocks
\* consecutive groups of `dimensions` integers, and the m-th integer of the
\* n-th group is extent m (i, j, then k) of block n.
C23_BinaryExtentsLayout ==
    extents_record_read =>
        LET size == dimensions * number_of_blocks
            start == extents_record_start
        IN  /\ Len(fortran_input) >= start + size + 1
            /\ fortran_input[start].op = "record_open"
            /\ fortran_input[start + size + 1].op = "record_close"
            /\ \A b \in 1..number_of_blocks : \A m \in 1..dimensions :
                  fortran_input[start + (b - 1) * dimensions + m] =
                      unpack_int(extents[m][b])

\* Witness of C23: a binary file of two 3D blocks with different extents
\* has been parsed to its end.
C23_Witness ==
    /\ extents_record_read
    /\ pc = "done"
    /\ dimensions = 3
    /\ number_of_blocks = 2
    /\ extents[1][1] # extents[1][2]
    /\ extents[1][1] # extents[2][1]

\* The record_open and record_close calls made, in order.
record_calls == SelectSeq(fortran_input, LAMBDA e : e.op # "int")

binary_parse_succeeded ==
    pc = "done" /\ parse_as_binary /\ dimensions \in {2, 3}

\* C24: when parse_binary has returned normally, its record_open and
\* record_close calls alternate, the first being an open and the last a
\* close, and the number of records is one per block, one for the extents
\* table and, unless single_block is set, one for the block count.
C24_RecordsAlternate ==
    binary_parse_succeeded =>
        /\ Len(record_calls) =
              2 * ((IF single_block THEN 0 ELSE 1) + 1 + number_of_blocks)
        /\ \A p \in 1..Len(record_calls) :
              record_calls[p].op =
                  IF p % 2 = 1 THEN "record_open" ELSE "record_close"
        /\ ~record_open_flag

\* Witness of C24: a binary file with a block count of two has been
\* parsed to its end.
C24_Witness ==
    /\ binary_parse_succeeded
    /\ ~single_block
    /\ number_of_blocks = 2
    /\ Len(record_calls) = 8

\* The first consumer has been given the blocks 0..last, each once, in
\* order, with the coordinates read for it.
first_consumer_got(last) ==
    /\ Len(first_consumer_calls) = last + 1
    /\ \A p \in 1..(last + 1) :
          /\ first_consumer_calls[p].block = p - 1
          /\ p = last + 1 => first_consumer_calls[p].blk = dispatched_block

block_trailer_failed ==
    /\ parse_as_binary
    /\ pc = "error"
    /\ thrown = ThrowInt(1)
    /\ bad_trailer_read

\* C25: in parse_binary the consumers are given block n after its
\* coordinates are read and before record_close reads the trailing length of
\* its record; when that trailing length is wrong, the consumers have been
\* given the blocks 0..n, block n included.
C25_DispatchBeforeClose ==
    (parse_as_binary /\ functions # << >>) =>
        /\ pc = "binary_close" =>
              /\ first_consumer_got(n)
              /\ fortran_input[Len(fortran_input)].op = "record_open"
              /\ in_sections[Len(in_sections)] = "coordinates"
        /\ block_trailer_failed => first_consumer_got(n)

\* Witness of C25: the record of the second of two blocks ended with a
\* wrong trailing length after a consumer had been given both blocks.
C25_Witness ==
    /\ block_trailer_failed
    /\ functions # << >>
    /\ n = 1
    /\ Len(first_consumer_calls) = 2
    /\ first_consumer_calls[2].block = 1

\* C26: an exception thrown by a consumer does not leave the parser as it
\* is: parse_ascii throws its line counter as an int instead, parse_binary
\* the int 1; the consumer that threw is the last one called, so neither
\* the remaining consumers of that block nor any later block is processed.
C26_ConsumerException ==
    /\ [](\A p \in 1..Len(calls) :
            calls[p].threw =>
                /\ p = Len(calls)
                /\ pc = "error"
                /\ thrown = IF parse_as_binary THEN ThrowInt(1)
                            ELSE ThrowInt(line_number)
                /\ blocks_read = calls[p].block + 1)
    /\ [][consumer_threw =>
             (calls' = calls /\ in_sections' = in_sections
                /\ in_pos' = in_pos /\ fortran_input' = fortran_input)]_vars

\* Witness of C26: the first of two consumers threw on the first of two
\* blocks of an ascii file.
C26_Witness ==
    /\ ~parse_as_binary
    /\ number_of_blocks = 2
    /\ Len(functions) = 2
    /\ Len(calls) = 1
    /\ calls[1].threw
    /\ pc = "error"

(***************************************************************************)
(* Tag nesting of the writer.                                              *)
(***************************************************************************)
PieceTags == {"Piece", "Points", "Cells", "PointData", "CellData",
              "DataArray"}

\* The tags open after the events out[from..to], read in order, `open_tags`
\* being the tags opened by them so far; << "unbalanced" >> when one of
\* them closes a tag that is not the innermost of those.
RECURSIVE nesting(_, _, _)
nesting(from, to, open_tags) ==
    IF from > to THEN open_tags
    ELSE IF out[from].e = "open"
    THEN nesting(from + 1, to, Append(open_tags, out[from].tag))
    ELSE IF out[from].e = "close"
    THEN IF open_tags # << >> /\ open_tags[Len(open_tags)] = out[from].tag
         THEN nesting(from + 1, to, SubSeq(open_tags, 1, Len(open_tags) - 1))
         ELSE << "unbalanced" >>
    ELSE nesting(from + 1, to, open_tags)

\* Call q opened a file on a writer with no tag open, and every call
\* after it and before call p is a write_piece that returned.
session_from_to(q, p) ==
    /\ q \in OkCalls("open_file")
    /\ q < p
    /\ wcalls[q].tags0 = << >>
    /\ \A r \in (q + 1)..(p - 1) : r \in OkCalls("write_piece")

\* C27: open_file leaves the two tags VTKFile and UnstructuredGrid open on
\* top of those open before it; a write_piece that returns closes every tag
\* it opened, innermost first, and leaves the open tags as they were; a
\* close_file after an open_file and any number of write_piece calls
\* returns with no tag open.
C27_TagsBalanced ==
    /\ \A p \in OkCalls("open_file") :
          wcalls[p].tags1 =
              wcalls[p].tags0 \o << "VTKFile", "UnstructuredGrid" >>
    /\ \A p \in OkCalls("write_piece") :
          /\ wcalls[p].tags1 = wcalls[p].tags0
          /\ nesting(wcalls[p].out0 + 1, wcalls[p].out1, << >>) = << >>
          /\ \A x \in written_by(p) :
                out[x].e \in {"open", "close"} => out[x].tag \in PieceTags
    /\ \A p \in Calls("close_file") :
          (\E q \in 1..(p - 1) : session_from_to(q, p)) =>
              /\ wcalls[p].result = "ok"
              /\ wcalls[p].tags1 = << >>

\* Witness of C27: a file was opened, two pieces were written, one of them
\* with cells and data arrays, and the file was closed.
C27_Witness ==
    \E p \in OkCalls("close_file") :
        /\ p = 4
        /\ session_from_to(1, p)
        /\ wcalls[2].arg = "line"
        /\ wcalls[p].tags0 = << "VTKFile", "UnstructuredGrid" >>
        /\ wcalls[p].tags1 = << >>

\* C28: in every state the column-data list, the column-name list and the
\* fill-value list have the same length; every add_column appends one entry
\* to each of them, the fill value being the default fill value of that
\* moment, and no other operation changes the length of any of them.
C28_MatchingSizes ==
    /\ check_matching_sizes(table_state)
    /\ \A p \in 1..Len(tcalls) :
          LET t0 == tcalls[p].before
              t1 == table_after(p)
              arg == tcalls[p].arg
          IN  IF tcalls[p].op = "add_column"
              THEN /\ tcalls[p].result = "ok"
                   /\ Len(t1.data) = Len(t0.data) + 1
                   /\ SubSeq(t1.data, 1, Len(t0.data)) = t0.data
                   /\ t1.data[Len(t1.data)] =
                         IF Len(arg) = 2 THEN arg[2] ELSE << >>
                   /\ t1.names =
                         Append(t0.names,
                                IF arg = << >> THEN to_string(Len(t0.data))
                                ELSE arg[1])
                   /\ t1.fills = Append(t0.fills, t0.dflt)
              ELSE /\ Len(t1.data) = Len(t0.data)
                   /\ t1.names = t0.names
                   /\ Len(t1.fills) = Len(t0.fills)

\* Witness of C28: a column was added to a table with a column, after the
\* default fill value had been changed, and a row was set afterwards.
C28_Witness ==
    \E p \in TableCalls("add_column") :
        /\ tcalls[p].before.dflt = 7
        /\ Len(tcalls[p].before.data) = 1
        /\ p < Len(tcalls)
        /\ tcalls[p + 1].op = "set_row"
        /\ tcalls[p + 1].result = "ok"


(***************************************************************************)
(* The adaptive integrators of Integrators.h.  Each keeps a stack of       *)
(* frames, the sub-intervals still to be integrated, and the counter       *)
(* stack_size.  Whether a frame is refined or accepted depends on the      *)
(* integrand and the tolerance: every decision is possible.  The limits    *)
(* are integers of a grid fine enough for the split points of              *)
(* MaxRefinements nested refinements to be exact.                          *)
(***************************************************************************)
Methods == {"adaptive_trapezoidal_integrate", "adaptive_simpsons_integrate",
            "adaptive_gauss_lobatto_integrate"}

IntegrationSpan == 12 ^ (MaxRefinements + 1)
LowerLimits == {0, 7}

\* stack_frame{ l_lim, u_lim, ... }: the values of the integrand kept in a
\* frame only enter the decisions.
stack_frame(l_lim, u_lim) == [l_lim |-> l_lim, u_lim |-> u_lim]

\* alpha * h and beta * h of adaptive_gauss_lobatto_integrate, with 5/6 for
\* alpha = sqrt(2/3) and 1/2 for beta = 1/sqrt(5): 0 < beta < alpha < 1.
alpha_times(h) == (5 * h) \div 6
beta_times(h) == h \div 2

\* The frames pushed when the frame tmp is refined, the first pushed first.
pushed_frames(m, tmp) ==
    IF m = "adaptive_gauss_lobatto_integrate"
    THEN LET h == (tmp.u_lim - tmp.l_lim) \div 2
             mid == (tmp.u_lim + tmp.l_lim) \div 2
             mll == mid - alpha_times(h)
             mrr == mid + alpha_times(h)
             ml == mid - beta_times(h)
             mr == mid + beta_times(h)
         IN  << stack_frame(tmp.l_lim, mll), stack_frame(mll, ml),
                stack_frame(ml, mid), stack_frame(mid, mr),
                stack_frame(mr, mrr), stack_frame(mrr, tmp.u_lim) >>
    ELSE LET p_sub == (tmp.l_lim + tmp.u_lim) \div 2
         IN  << stack_frame(tmp.l_lim, p_sub), stack_frame(p_sub, tmp.u_lim) >>

\* stack_size += 1 (trapezoidal, Simpson), stack_size += 5 (Gauss-Lobatto).
stack_size_increase_one(m) == 1

stack_size_increase(m) ==
    IF m = "adaptive_gauss_lobatto_integrate" THEN 5 ELSE 1

\* The split points of the frame are exact on the grid.
splits_exactly(m, tmp) ==
    (tmp.u_lim - tmp.l_lim) %
        (IF m = "adaptive_gauss_lobatto_integrate" THEN 12 ELSE 2) = 0

\* The call of an integrator, up to the head of its loop.
integrate(m, lower, upper) ==
    /\ ipc = "idle"
    /\ method' = m
    /\ lower_limit' = lower
    /\ upper_limit' = upper
    /\ IF ~ndebug /\ ~(upper > lower)
       THEN /\ ipc' = "aborted"
            /\ UNCHANGED << stack, stack_size >>
       ELSE /\ ipc' = "loop"
            /\ stack' = << stack_frame(lower, upper) >>
            /\ stack_size' = 1
    /\ UNCHANGED << ndebug, pvars, wvars, tvars, accepted, refinements >>

\* One iteration of while (!stack.empty()): the top frame is refined or
\* accepted.
integrate_iteration(refine) ==
    /\ ipc = "loop"
    /\ stack # << >>
    /\ LET tmp == stack[Len(stack)]
           popped == SubSeq(stack, 1, Len(stack) - 1)
       IN  IF /\ ~ndebug
              /\ method = "adaptive_trapezoidal_integrate"
              /\ tmp.u_lim = tmp.l_lim
           THEN /\ ipc' = "aborted"
                /\ UNCHANGED << stack, stack_size, accepted, refinements >>
           ELSE IF refine
           THEN /\ refinements < MaxRefinements
                /\ splits_exactly(method, tmp)
                /\ stack' = popped \o pushed_frames(method, tmp)
                /\ stack_size' = stack_size + stack_size_increase(method)
                /\ refinements' = refinements + 1
                /\ UNCHANGED << ipc, accepted >>
           ELSE /\ stack' = popped
                /\ stack_size' = stack_size - 1
                /\ accepted' = accepted \cup {tmp}
                /\ UNCHANGED << ipc, refinements >>
    /\ UNCHANGED << ndebug, pvars, wvars, tvars, method, lower_limit,
                    upper_limit >>

\* The loop is left: assert(stack_size == 0); return result;
integrate_return ==
    /\ ipc = "loop"
    /\ stack = << >>
    /\ ipc' = IF ~ndebug /\ stack_size # 0 THEN "aborted" ELSE "returned"
    /\ UNCHANGED << ndebug, pvars, wvars, tvars, method, lower_limit,
                    upper_limit, stack, stack_size, accepted, refinements >>

NextIntegrators ==
    \/ \E m \in Methods, lower \in LowerLimits :
          integrate(m, lower, lower + IntegrationSpan)
    \/ \E refine \in BOOLEAN : integrate_iteration(refine)
    \/ integrate_return

SpecIntegrators == InitTable /\ [][NextIntegrators]_vars

(***************************************************************************)
(* Properties of the adaptive integrators.                                 *)
(***************************************************************************)
frames_on_stack == { stack[x] : x \in 1..Len(stack) }

\* The frames are sub-intervals of positive length that do not overlap and
\* cover [lower_limit, upper_limit].
tiles_interval(frames) ==
    /\ frames # {}
    /\ \A f \in frames :
          /\ f.l_lim < f.u_lim
          /\ f.l_lim = lower_limit \/ \E g \in frames : g.u_lim = f.l_lim
          /\ f.u_lim = upper_limit \/ \E g \in frames : g.l_lim = f.u_lim
    /\ \A f \in frames : \A g \in frames \ {f} :
          f.u_lim <= g.l_lim \/ g.u_lim <= f.l_lim

\* C29: at the head of every loop iteration of each adaptive integrator
\* stack_size is the number of frames on the stack, so the assertion
\* stack_size == 0 holds when the loop is left; the frames on the stack and
\* the accepted ones never overlap and together cover
\* [lower_limit, upper_limit].
C29_StackSizeCountsFrames ==
    /\ ipc = "loop" => stack_size = Len(stack)
    /\ ipc = "returned" => stack_size = 0
    /\ ipc # "aborted"
    /\ ipc \in {"loop", "returned"} =>
          /\ tiles_interval(frames_on_stack \cup accepted)
          /\ frames_on_stack \cap accepted = {}
          /\ Cardinality(frames_on_stack) = Len(stack)

\* Witness of C29: the Gauss-Lobatto integrator has refined a frame and one
\* of the frames that came of it, accepted the others and returned.
C29_Witness ==
    /\ method = "adaptive_gauss_lobatto_integrate"
    /\ ipc = "returned"
    /\ refinements = 2
    /\ Cardinality(accepted) = 11


(***************************************************************************)
(* The earlier parser of HBTK/Plot3DParser.cpp.  Its parse_ascii reads the *)
(* block count and the extents as above, then one coordinate value per     *)
(* line; parse_3d has no binary reader.                                    *)
(***************************************************************************)
\* What `auto coord = mesh.coord(i, j, k);` gives: a tuple of references to
\* the stored point, or a copy of the point.
CoordAccess == {"references", "copy"}

\* The index of std::get<..>(coord) in the three passes (1-based here):
\* std::get<0>, std::get<1> and, in the pass under dimensions == 3,
\* std::get<1> again.
legacy_get_index(pass) == IF pass = 1 THEN 1 ELSE 2

\* The point at idx after `passes` passes over a block of extents e whose
\* first line is the first-th value of the file.
RECURSIVE legacy_point(_, _, _, _, _)
legacy_point(e, first, idx, passes, access) ==
    IF passes = 0 \/ access = "copy" THEN << 0, 0, 0 >>
    ELSE [legacy_point(e, first, idx, passes - 1, access)
             EXCEPT ![legacy_get_index(passes)] =
                        logical_coord(e, first, idx, passes)]

\* lines 220-256: allocate block n and read its coordinates line by line.
\* avail: the lines of the block that std::stod converts; the line after
\* them makes it throw, which the catch turns into throw line_number.
legacy_parse_ascii_block(access) ==
    /\ pc = "ascii_block"
    /\ in_sections' = Append(in_sections, "coordinates")
    /\ LET i_ext == extents[1][n + 1]
           j_ext == extents[2][n + 1]
           k_ext == IF dimensions = 3 THEN extents[3][n + 1] ELSE 1
           e     == << i_ext, j_ext, k_ext >>
           need  == dimensions * i_ext * j_ext * k_ext
       IN  \E avail \in FailPoints(need) :
             IF avail < need
             THEN /\ line_number' = line_number + avail + 1
                  /\ in_pos' = in_pos + avail
                  /\ input_malformed' = TRUE
                  /\ pc' = "error"
                  /\ thrown' = ThrowInt(line_number + avail + 1)
                  /\ mesh' = set_extent(i_ext, j_ext, k_ext)
                  /\ UNCHANGED << n, fidx >>
             ELSE /\ line_number' = line_number + need
                  /\ in_pos' = in_pos + need
                  /\ mesh' = [extent |-> e,
                              coord  |-> [idx \in Indices3(i_ext, j_ext, k_ext) |->
                                  legacy_point(e, in_pos, idx, dimensions,
                                               access)]]
                  /\ UNCHANGED << input_malformed, thrown >>
                  /\ IF functions = << >>
                     THEN /\ pc' = after_block(FALSE).pc
                          /\ n' = after_block(FALSE).n
                          /\ fidx' = 0
                     ELSE /\ pc' = "ascii_fanout"
                          /\ fidx' = 1
                          /\ UNCHANGED n
    /\ UNCHANGED << cfg_vars, fortran_input, number_of_blocks, extents,
                    in_fail, record_open_flag, calls >>

NextLegacy ==
    \/ \E sb \in BOOLEAN, dims \in Dimensionalities :
         set_options(sb, FALSE, dims)
    \/ add_2D_block_function
    \/ add_3D_block_function
    \/ main_parser
    \/ parse_ascii_count
    \/ parse_ascii_extents
    \/ \E access \in CoordAccess : legacy_parse_ascii_block(access)
    \/ parse_ascii_call

SpecLegacy == InitParser /\ [][NextLegacy]_vars

\* C30: in parse_ascii of the earlier parser with dimensions == 3, every
\* block handed to a 3D consumer has in the Z component of each point the
\* value read for it in the third pass, and in the Y component the value
\* read in the second pass.
C30_LegacyThirdPassIsZ ==
    \A p \in DOMAIN calls :
        calls[p].dim = 3 =>
            LET e == block_extent(calls[p].block + 1)
                first == block_start(calls[p].block + 1)
            IN  \A idx \in Indices3(e[1], e[2], e[3]) :
                  /\ calls[p].blk.coord[idx][3] =
                         logical_coord(e, first, idx, 3)
                  /\ calls[p].blk.coord[idx][2] =
                         logical_coord(e, first, idx, 2)

====
